---- MODULE Spec2Model ----
(***************************************************************************)
(* Detection decoding / suppression (ddddocr/core/detection_engine.py) and *)
(* the slide entry points (ddddocr/core/slide_engine.py).                  *)
(*                                                                         *)
(* Numbers are exact rationals kept as integers over a stated denominator: *)
(*   thresholds            in units of 1/ThrDen   (0.45 = 9/20, 0.1 = 2/20) *)
(*   scores                in units of 1/sden     (sden is a parameter)     *)
(*   box coordinates       in units of 1/D pixel  (D is a parameter)        *)
(* Sequences are 1-based: row i of the model is numpy row i-1.             *)
(***************************************************************************)
EXTENDS Integers, Sequences, FiniteSets, TLC

VARIABLES
    cand,        \* Suppressor input: sequence of [box, scores] rows
    score_thr,   \* score threshold of the Suppressor calls
    dets,        \* what multiclass_nms_class_agnostic returned for cand, for each
                 \* IoU threshold it was called with
    re_thr,      \* the IoU threshold of the call made on an output
    dets_re,     \* what the call on the output dets[re_thr] returned
    img,         \* get_bbox: the decoded image, [w |-> img.shape[1], h |-> img.shape[0]]
    raw,         \* the tensor output[0] as session.run returned it
    output,      \* the same array object as get_bbox leaves it: [px, rows], px
                 \* telling whether the first four columns hold pixels
    pred,        \* get_bbox: what multiclass_nms returned
    result,      \* get_bbox: [kind |-> "pending" | "return" | "raise", ...]
    sl_call,     \* the slide call: [op, simple_target, target, background]
    sl_pc,       \* where the call stands
    sl_steps,    \* the numeric steps (cv2 calls) completed so far, in order
    sl_arr,      \* the arrays the call holds: target, background and the one worked on
    sl_result,   \* [kind |-> "pending" | "return" | "raise", exc, value]
    engine,      \* the attributes of the engine objects the threads call
    th,          \* for each thread: its call, where it stands, what it returned
    heap,        \* the arrays each call keeps between its statements
    overlapped,  \* whether a statement ran while another call was under way
    cfg,         \* demo_postprocess on its own: [img_size, p6]
    cfg_pc,      \* "new", "ready" after initialize(), "done"
    cfg_out,     \* the array passed as outputs, [px, rows]
    cfg_result,  \* "pending", "decoded" or the error raised
    sc_rows,     \* scoring on its own: the decoded rows, 1.0 being 2^MantBits
    sc_thr,      \* the score threshold of the call, in 1/ThrDen
    sc_dets,     \* what multiclass_nms returned for the scores of sc_rows
    nm_pc,       \* nms followed statement by statement on cand: "enter", "loop", "done"
    nm_thr,      \* its nms_thr, in 1/ThrDen
    nm_order,    \* the array order: the pool, as positions in valid_boxes
    nm_keep,     \* the list keep
    lc_obj,      \* a DetectionEngine: [session, is_initialized, use_gpu, device_id]
    lc_loads,    \* how many InferenceSession objects have been created for it
    lc_call      \* the last call made on it: [op, arg, kind, exc, value, validated, ran]

supVars == <<cand, score_thr, dets, re_thr, dets_re>>

detVars == <<img, raw, output, pred, result>>

slVars == <<sl_call, sl_pc, sl_steps, sl_arr, sl_result>>

concVars == <<engine, th, heap, overlapped>>

cfgVars == <<cfg, cfg_pc, cfg_out, cfg_result>>

scVars == <<sc_rows, sc_thr, sc_dets>>

nmVars == <<nm_pc, nm_thr, nm_order, nm_keep>>

lcVars == <<lc_obj, lc_loads, lc_call>>

vars == <<supVars, detVars, slVars, concVars, cfgVars, scVars, nmVars, lcVars>>

(***************************************************************************)
(* Scales and input sets                                                   *)
(***************************************************************************)
ThrDen == 20

NmsThrDefault == 9       \* nms_thr = 0.45

ScoreThrDefault == 2     \* score_thr = 0.1

MaxBoxes == 4

NmsThrs == {4, NmsThrDefault}

\* x1, y1, x2, y2 of the candidate boxes the Suppressor is run on
BoxPool ==
    << <<0, 5, 9, 14>>,     \* IoU 1/3 with the next, 1/5 with the two halves
       <<0, 0, 9, 9>>,
       <<0, 0, 4, 9>>,      \* left half of the second box, IoU 1/2 with it
       <<5, 0, 9, 9>>,      \* right half of the second box, IoU 1/2 with it
       <<0, 0, 9, 8>> >>    \* IoU 9/10 with the second box

\* per-class scores of a candidate row that passes the score filter, in 1/20:
\* best 0.6, 0.8, 0.9
ScoreRows == << <<12, 4>>, <<3, 16>>, <<18, 18>> >>

\* per-class scores of a row the filter drops: best 0.1, not above score_thr
LowScores == <<2, 0>>

PoolSize == Len(BoxPool) * Len(ScoreRows) + 1

\* the k-th candidate row of the pool: every box with every passing score row,
\* and one row the filter drops (its box is never read)
CandAt(k) ==
    IF k = PoolSize THEN [box |-> BoxPool[1], scores |-> LowScores]
    ELSE [box    |-> BoxPool[((k - 1) \div Len(ScoreRows)) + 1],
          scores |-> ScoreRows[((k - 1) % Len(ScoreRows)) + 1]]

SeqsUpTo(S, n) == UNION { [1..k -> S] : k \in 0..n }

RECURSIVE SortedFrom(_, _)
\* the non-decreasing sequences of at most n pool indices, none below lo
SortedFrom(lo, n) ==
    IF n = 0 THEN { <<>> }
    ELSE { <<>> } \cup
         UNION { { <<k>> \o t : t \in SortedFrom(k, n - 1) } : k \in lo..PoolSize }

\* The candidate arrays. argsort places equal scores in any order (DescOrders),
\* so what the Suppressor can return does not depend on the order of the rows
\* in the array: the arrays are enumerated up to a permutation of their rows.
CandArrays ==
    { [i \in 1..Len(ix) |-> CandAt(ix[i])] : ix \in SortedFrom(1, MaxBoxes) }

Unset == [kind |-> "unset", rows |-> <<>>]

NoneResult == [kind |-> "None", rows |-> <<>>]

Unbound == [kind |-> "UnboundLocalError", rows |-> <<>>]

(***************************************************************************)
(* DetectionEngine.nms                                                     *)
(***************************************************************************)
Max(a, b) == IF a >= b THEN a ELSE b

Min(a, b) == IF a <= b THEN a ELSE b

\* a slip: the areas without the + 1 of the inclusive convention
AreaExclusive(b, D) == (b[3] - b[1]) * (b[4] - b[2])

\* areas = (x2 - x1 + 1) * (y2 - y1 + 1), scaled by D*D
Area(b, D) == (b[3] - b[1] + D) * (b[4] - b[2] + D)

\* a slip: w and h of the intersection without np.maximum(0.0, ...)
InterUnclipped(bi, bj, D) ==
    (Min(bi[3], bj[3]) - Max(bi[1], bj[1]) + D) * (Min(bi[4], bj[4]) - Max(bi[2], bj[2]) + D)

\* inter = max(0, xx2 - xx1 + 1) * max(0, yy2 - yy1 + 1), scaled by D*D
Inter(bi, bj, D) ==
    LET xx1 == Max(bi[1], bj[1])
        yy1 == Max(bi[2], bj[2])
        xx2 == Min(bi[3], bj[3])
        yy2 == Min(bi[4], bj[4])
        w == Max(0, xx2 - xx1 + D)
        h == Max(0, yy2 - yy1 + D)
    IN  w * h

\* a slip: the overlap taken relative to the selected box alone
OvrDenSelected(bi, bj, D) == Area(bi, D)

\* areas[i] + areas[order[1:]] - inter, scaled by D*D
OvrDen(bi, bj, D) == Area(bi, D) + Area(bj, D) - Inter(bi, bj, D)

\* the value standing for a float nan: no finite value of the model is that low
NaN == 0 - 1000000

HasNaN(b) == \E c \in 1..Len(b) : b[c] = NaN

\* a slip: the comparison of np.where inverted
OvrGeq(bi, bj, thr, D) ==
    LET num == Inter(bi, bj, D)
        den == Area(bi, D) + Area(bj, D) - Inter(bi, bj, D)
    IN  ~HasNaN(bi) /\ ~HasNaN(bj) /\ den > 0 /\ num * ThrDen >= thr * den

\* ovr <= nms_thr for ovr = inter / (areas[i] + areas[j] - inter); a zero
\* denominator gives nan or +inf in numpy, and both compare false; a nan
\* coordinate of either box makes ovr nan
OvrLeq(bi, bj, thr, D) ==
    LET num == Inter(bi, bj, D)
        den == OvrDen(bi, bj, D)
    IN  IF HasNaN(bi) \/ HasNaN(bj) THEN FALSE
        ELSE IF den > 0 THEN num * ThrDen <= thr * den
        ELSE IF den < 0 THEN num * ThrDen >= thr * den
        ELSE FALSE

\* a slip: nothing is discarded, order = order[1:]
RemainingAll(boxes, ord, thr, D) == Tail(ord)

\* a slip: order = order[inds], the + 1 left out
RemainingUnshifted(boxes, ord, thr, D) ==
    LET places == [p \in 1..(Len(ord) - 1) |-> p + 1]
        inds == SelectSeq(places, LAMBDA p : OvrLeq(boxes[Head(ord)], boxes[ord[p]], thr, D))
    IN  [k \in 1..Len(inds) |-> ord[inds[k] - 1]]

\* order = order[inds + 1] with inds = np.where(ovr <= nms_thr)[0]
Remaining(boxes, ord, thr, D) ==
    SelectSeq(Tail(ord), LAMBDA j : OvrLeq(boxes[Head(ord)], boxes[j], thr, D))

RECURSIVE NmsLoop(_, _, _, _, _)
\* while order.size > 0: i = order[0]; keep.append(i); order = order[inds + 1]
NmsLoop(boxes, ord, keep, thr, D) ==
    IF ord = <<>> THEN keep
    ELSE NmsLoop(boxes, Remaining(boxes, ord, thr, D), Append(keep, Head(ord)), thr, D)

RECURSIVE AscFrom(_, _)
AscFrom(scores, S) ==
    IF S = {} THEN { <<>> }
    ELSE UNION { { <<i>> \o t : t \in AscFrom(scores, S \ {i}) } :
                    i \in { j \in S : \A k \in S : scores[j] <= scores[k] } }

\* a slip: the [::-1] left out
AscOrders(scores) == AscFrom(scores, 1..Len(scores))

RECURSIVE DescFrom(_, _)
\* the arrangements of the positions S in which the scores do not increase
DescFrom(scores, S) ==
    IF S = {} THEN { <<>> }
    ELSE UNION { { <<i>> \o t : t \in DescFrom(scores, S \ {i}) } :
                    i \in { j \in S : \A k \in S : scores[j] >= scores[k] } }

\* every outcome of scores.argsort()[::-1]: the positions in descending score
\* order; argsort's default sort is not stable, so equal scores come in any order
DescOrders(scores) == DescFrom(scores, 1..Len(scores))

\* a slip: the box selected first not appended to keep
NmsDropFirst(boxes, ord, thr, D) == Tail(NmsLoop(boxes, ord, <<>>, thr, D))

Nms(boxes, ord, thr, D) == NmsLoop(boxes, ord, <<>>, thr, D)

(***************************************************************************)
(* DetectionEngine.multiclass_nms_class_agnostic                           *)
(***************************************************************************)
\* a slip: the last index of the maximum
ArgmaxLast(row) ==
    CHOOSE c \in 1..Len(row) :
        /\ \A e \in 1..Len(row) : row[c] >= row[e]
        /\ \A e \in (c + 1)..Len(row) : row[e] < row[c]

RECURSIVE ArgmaxFrom(_, _, _)
\* first index of the maximum of a non-empty row (numpy argmax)
ArgmaxFrom(row, k, best) ==
    IF k > Len(row) THEN best
    ELSE ArgmaxFrom(row, k + 1, IF row[k] > row[best] THEN k ELSE best)

Argmax(row) == ArgmaxFrom(row, 2, 1)

ClsInds(scores) == [i \in 1..Len(scores) |-> Argmax(scores[i])]

\* cls_scores = scores[np.arange(len(cls_inds)), cls_inds]
ClsScores(scores) == [i \in 1..Len(scores) |-> scores[i][Argmax(scores[i])]]

\* cls_scores > score_thr for one score
ScorePasses(s, sthr, sden) == s * ThrDen > sthr * sden

RECURSIVE ValidRowsFrom(_, _, _, _)
ValidRowsFrom(cs, k, sthr, sden) ==
    IF k > Len(cs) THEN <<>>
    ELSE (IF ScorePasses(cs[k], sthr, sden) THEN <<k>> ELSE <<>>)
         \o ValidRowsFrom(cs, k + 1, sthr, sden)

\* valid_score_mask = cls_scores > score_thr, as the list of rows it selects
ValidRows(scores, sthr, sden) == ValidRowsFrom(ClsScores(scores), 1, sthr, sden)

\* valid_scores = cls_scores[valid_score_mask]
ValidScores(scores, sthr, sden) ==
    LET cs == ClsScores(scores)
        v == ValidRowsFrom(cs, 1, sthr, sden)
    IN  [k \in 1..Len(v) |-> cs[v[k]]]

\* ord is the outcome of valid_scores.argsort()[::-1] inside nms; src is the
\* row of the input array a detection comes from
MulticlassNms(boxes, scores, thr, sthr, sden, ord, D) ==
    LET cls_inds == ClsInds(scores)
        cls_scores == ClsScores(scores)
        valid == ValidRowsFrom(cls_scores, 1, sthr, sden)
        valid_boxes == [k \in 1..Len(valid) |-> boxes[valid[k]]]
        keep == Nms(valid_boxes, ord, thr, D)
    IN  IF valid = <<>> THEN NoneResult
        ELSE IF keep # <<>>
        THEN [kind |-> "array",
              rows |-> [k \in 1..Len(keep) |->
                          [box   |-> valid_boxes[keep[k]],
                           score |-> cls_scores[valid[keep[k]]],
                           cls   |-> cls_inds[valid[keep[k]]] - 1,
                           src   |-> valid[keep[k]]]]]
        ELSE Unbound

CandBoxes(c) == [i \in 1..Len(c) |-> c[i].box]

CandScores(c) == [i \in 1..Len(c) |-> c[i].scores]

\* the first call's output as an input: its boxes with their scores (one column)
OutBoxes(d) == [i \in 1..Len(d.rows) |-> d.rows[i].box]

OutScores(d) == [i \in 1..Len(d.rows) |-> <<d.rows[i].score>>]

(***************************************************************************)
(* Suppressor calls                                                        *)
(***************************************************************************)
SupInputs ==
    /\ cand \in CandArrays
    /\ score_thr = ScoreThrDefault
    /\ dets = [t \in NmsThrs |-> Unset]
    /\ re_thr = NmsThrDefault
    /\ dets_re = Unset

\* multiclass_nms_class_agnostic(boxes, scores, nms_thr, score_thr) on the same
\* arrays for each IoU threshold; argsort gives the same order for the same scores
Suppress ==
    /\ \A t \in NmsThrs : dets[t] = Unset
    /\ \E ord \in DescOrders(ValidScores(CandScores(cand), score_thr, ThrDen)) :
          dets' = [t \in NmsThrs |->
                      MulticlassNms(CandBoxes(cand), CandScores(cand), t,
                                    score_thr, ThrDen, ord, 1)]
    /\ UNCHANGED <<cand, score_thr, re_thr, dets_re>>

\* the call on the output of an earlier call, with the same thresholds
Resuppress ==
    /\ dets_re = Unset
    /\ \E t \in NmsThrs :
          /\ dets[t].kind = "array"
          /\ re_thr' = t
          /\ \E ord \in DescOrders(ValidScores(OutScores(dets[t]), score_thr, ThrDen)) :
                dets_re' = MulticlassNms(OutBoxes(dets[t]), OutScores(dets[t]), t,
                                         score_thr, ThrDen, ord, 1)
    /\ UNCHANGED <<cand, score_thr, dets>>

(***************************************************************************)
(* DetectionEngine.nms inside multiclass_nms_class_agnostic, its while     *)
(* loop taken one iteration at a time                                      *)
(***************************************************************************)
\* valid_boxes = boxes[valid_score_mask] for the candidate array c
NmsBoxesOf(c) ==
    LET valid == ValidRows(CandScores(c), score_thr, ThrDen)
    IN  [k \in 1..Len(valid) |-> CandBoxes(c)[valid[k]]]

NmsBoxes == NmsBoxesOf(cand)

\* the candidate arrays the loop is followed on: those of fewer than MaxBoxes rows
NmsCands == { c \in CandArrays : Len(c) < MaxBoxes }

\* before the call
NmsInputs ==
    /\ nm_pc = "enter"
    /\ nm_thr = NmsThrDefault
    /\ nm_order = <<>>
    /\ nm_keep = <<>>

\* multiclass_nms_class_agnostic is called on a candidate array:
\* if valid_score_mask.sum() == 0: return None; else nms is entered:
\* order = scores.argsort()[::-1]; keep = []
NmsEnter ==
    /\ nm_pc = "enter"
    /\ \E c \in NmsCands : \E t \in NmsThrs :
          /\ cand' = c
          /\ nm_thr' = t
          /\ IF NmsBoxesOf(c) = <<>>
             THEN /\ nm_pc' = "done"
                  /\ UNCHANGED nm_order
             ELSE /\ nm_pc' = "loop"
                  /\ nm_order' \in DescOrders(ValidScores(CandScores(c), score_thr, ThrDen))
    /\ UNCHANGED <<score_thr, dets, re_thr, dets_re, nm_keep>>

\* one iteration of while order.size > 0: i = order[0]; keep.append(i);
\* order = order[inds + 1]. The loop is followed for Len(NmsBoxes) + 1
\* iterations at most.
NmsIterate ==
    /\ nm_pc = "loop"
    /\ nm_order # <<>>
    /\ Len(nm_keep) <= Len(NmsBoxes)
    /\ nm_keep' = Append(nm_keep, Head(nm_order))
    /\ nm_order' = Remaining(NmsBoxes, nm_order, nm_thr, 1)
    /\ UNCHANGED <<nm_pc, nm_thr>>

\* order.size > 0 is false: return keep
NmsReturn ==
    /\ nm_pc = "loop"
    /\ nm_order = <<>>
    /\ nm_pc' = "done"
    /\ UNCHANGED <<nm_thr, nm_order, nm_keep>>

(***************************************************************************)
(* DetectionEngine.get_bbox: preproc, demo_postprocess, suppression, clamp *)
(*                                                                         *)
(* A raw tensor row is <<cx, cy, w, h, objectness, class_0, class_1>> with *)
(* cx, cy in 1/8, w, h as multiples of ln 2 (so that exp is exact) and the *)
(* probabilities in 1/ThrDen. demo_postprocess overwrites the first four   *)
(* columns with pixels.                                                    *)
(***************************************************************************)
InputSize == 16

\* strides = [8, 16, 32] if not p6, else [8, 16, 32, 64]
StridesFor(p6) == IF ~p6 THEN <<8, 16, 32>> ELSE <<8, 16, 32, 64>>

\* get_bbox leaves p6 at its default
Strides == StridesFor(FALSE)

\* raw centre offsets are kept in 1/RawUnit; every stride is a multiple of it
RawUnit == Strides[1]

\* the image sizes get_bbox is run on: (w, h)
ImgSizes == { <<16, 16>>, <<16, 8>>, <<8, 16>>, <<32, 24>>, <<1, 32>> }

\* the rows the inference provider's tensor is made of
RowPool ==
    { <<0, 0, 0, 0, 0, 0, 0>>,           \* background: objectness 0
      <<4, 4, 0, 0, 18, 18, 2>>,         \* centred in its cell, one stride wide, 0.9 * 0.9
      <<-24, 4, -1, 1, 18, 4, 16>>,      \* three cells to the left of its cell
      <<6, 12, 1, 0, 12, 12, 12>>,       \* two strides wide, 0.6 * 0.6
      <<NaN, 4, 0, 0, 18, 18, 18>> }     \* a centre that is not a number, 0.9 * 0.9

\* a slip: hsize and wsize exchanged in the meshgrid
GridForSwapped(img_size, stride) ==
    LET hsize == img_size[1] \div stride
        wsize == img_size[2] \div stride
    IN  [j \in 1..(hsize * wsize) |->
            [gx |-> (j - 1) % hsize, gy |-> (j - 1) \div hsize, stride |-> stride]]

\* hsize = img_size[0] // stride, wsize = img_size[1] // stride;
\* xv, yv = np.meshgrid(np.arange(wsize), np.arange(hsize)); stack; reshape(1, -1, 2)
GridFor(img_size, stride) ==
    LET hsize == img_size[1] \div stride
        wsize == img_size[2] \div stride
    IN  [j \in 1..(hsize * wsize) |->
            [gx |-> (j - 1) % wsize, gy |-> (j - 1) \div wsize, stride |-> stride]]

RECURSIVE GridsAlong(_, _, _)
\* np.concatenate(grids, 1) with np.concatenate(expanded_strides, 1), from the
\* k-th stride on
GridsAlong(img_size, strides, k) ==
    IF k > Len(strides) THEN <<>>
    ELSE GridFor(img_size, strides[k]) \o GridsAlong(img_size, strides, k + 1)

\* the grid of get_bbox: img_size = (416, 416), here (InputSize, InputSize)
GridOf(stride) == GridFor(<<InputSize, InputSize>>, stride)

RECURSIVE GridsFrom(_)
\* np.concatenate(grids, 1) with np.concatenate(expanded_strides, 1)
GridsFrom(k) ==
    IF k > Len(Strides) THEN <<>> ELSE GridOf(Strides[k]) \o GridsFrom(k + 1)

Grids == GridsFrom(1)

\* N rows for every N up to the number of grid cells
Tensors == SeqsUpTo(RowPool, Len(Grids))

\* numpy broadcasting of the N tensor rows against the G grid rows in
\* outputs[..., :2] = (outputs[..., :2] + grids) * expanded_strides: the sum needs
\* N = G or one of them 1, and its rows must then fit the N rows assigned to
BroadcastOk(N, G) ==
    /\ N = G \/ N = 1 \/ G = 1
    /\ LET R == IF N = 1 THEN G ELSE N IN R = N \/ R = 1

\* 2^k * stride, that is exp(k ln 2) * stride
ExpTimes(k, stride) == IF k >= 0 THEN (2 ^ k) * stride ELSE stride \div (2 ^ (0 - k))

\* a slip: the grid offset added after the multiplication by the stride
DecodeRowGridLate(row, cell) ==
    [c \in 1..Len(row) |->
        IF c = 1 THEN IF row[1] = NaN THEN NaN
                      ELSE ((row[1] * cell.stride) \div RawUnit) + cell.gx
        ELSE IF c = 2 THEN ((row[2] * cell.stride) \div RawUnit) + cell.gy
        ELSE IF c = 3 THEN ExpTimes(row[3], cell.stride)
        ELSE IF c = 4 THEN ExpTimes(row[4], cell.stride)
        ELSE row[c]]

\* one row after outputs[..., :2] = ... and outputs[..., 2:4] = ...
DecodeRow(row, cell) ==
    [c \in 1..Len(row) |->
        IF c = 1 THEN IF row[1] = NaN THEN NaN
                      ELSE ((row[1] + RawUnit * cell.gx) * cell.stride) \div RawUnit
        ELSE IF c = 2 THEN ((row[2] + RawUnit * cell.gy) * cell.stride) \div RawUnit
        ELSE IF c = 3 THEN ExpTimes(row[3], cell.stride)
        ELSE IF c = 4 THEN ExpTimes(row[4], cell.stride)
        ELSE row[c]]

\* the array demo_postprocess leaves in outputs (and returns): the two slice
\* assignments write into the array it was given
DecodeWith(outputs, grids) ==
    [px   |-> TRUE,
     rows |-> [i \in 1..Len(outputs.rows) |->
                 DecodeRow(outputs.rows[i], grids[IF Len(grids) = 1 THEN 1 ELSE i])]]

\* demo_postprocess(output[0], (416, 416))
DemoPostprocess(outputs) == DecodeWith(outputs, Grids)

\* r = min(input_size[0] / img.shape[0], input_size[1] / img.shape[1]) is
\* InputSize / RatioDen(im)
RatioDen(im) == Max(im.w, im.h)

\* cv2.resize(img, (int(img.shape[1] * r), int(img.shape[0] * r))) rejects an
\* empty destination size
ResizeFails(im) ==
    \/ (im.w * InputSize) \div RatioDen(im) = 0
    \/ (im.h * InputSize) \div RatioDen(im) = 0

\* np.ones(...) * 114
PadValue == 114

\* (int(img.shape[1] * r), int(img.shape[0] * r)), the size the image is resized to
ResizedTo(im) ==
    [w |-> (im.w * InputSize) \div RatioDen(im), h |-> (im.h * InputSize) \div RatioDen(im)]

\* padded_img after padded_img[: int(img.shape[0] * r), : int(img.shape[1] * r)] =
\* resized_img: for each (x, y) the pad value or a sample of the resized image
Canvas(im) ==
    [c \in (0..(InputSize - 1)) \X (0..(InputSize - 1)) |->
        IF c[1] < ResizedTo(im).w /\ c[2] < ResizedTo(im).h THEN "resized" ELSE "pad"]

\* preproc(img, (416, 416)): the canvas and r, or the error of cv2.resize
Preproc(im) ==
    IF ResizeFails(im)
    THEN [kind |-> "raise", exc |-> "cv2.error"]
    ELSE [kind |-> "return", r_num |-> InputSize, r_den |-> RatioDen(im),
          canvas |-> Canvas(im)]

\* the denominator of the coordinates of boxes_xyxy after boxes_xyxy /= ratio
BoxDen == 2 * InputSize

\* a slip: the whole width and height taken off and added
CornerFormFull(p) ==
    << IF p[1] = NaN THEN NaN ELSE 2 * (p[1] - p[3]), 2 * (p[2] - p[4]),
       IF p[1] = NaN THEN NaN ELSE 2 * (p[1] + p[3]), 2 * (p[2] + p[4]) >>

\* boxes_xyxy[:, 0] = boxes[:, 0] - boxes[:, 2] / 2. and so on for one row
\* (cx, cy, w, h, ...), in half pixels
CornerForm(p) ==
    << IF p[1] = NaN THEN NaN ELSE 2 * p[1] - p[3], 2 * p[2] - p[4],
       IF p[1] = NaN THEN NaN ELSE 2 * p[1] + p[3], 2 * p[2] + p[4] >>

\* the corner form of every row, then boxes_xyxy /= ratio
BoxesXyxy(predictions, im) ==
    [i \in 1..Len(predictions) |->
        LET b == CornerForm(predictions[i])
        IN  [c \in 1..4 |-> IF b[c] = NaN THEN NaN ELSE b[c] * RatioDen(im)]]

\* the significand of the floats of the tensor, in bits
MantBits == 9

RECURSIVE Ulp(_)
\* the distance between neighbouring floats at n >= 0, in units of the last
\* place of 1..2^MantBits - 1
Ulp(n) == IF n < 2 ^ MantBits THEN 1 ELSE 2 * Ulp(n \div 2)

\* the float nearest to the exact value n >= 0, ties to the even significand
Fl(n) ==
    LET u == Ulp(n)
        q == n \div u
        r == n % u
    IN  IF 2 * r < u THEN q * u
        ELSE IF 2 * r > u THEN (q + 1) * u
        ELSE IF q % 2 = 0 THEN q * u
        ELSE (q + 1) * u

\* scores = predictions[:, 4:5] * predictions[:, 5:], each product rounded to
\* a float; in 1/(ThrDen * ThrDen) for the rows of get_bbox
ObjScores(predictions) ==
    [i \in 1..Len(predictions) |->
        [c \in 1..(Len(predictions[i]) - 5) |->
            Fl(predictions[i][5] * predictions[i][5 + c])]]

\* int(x) of a float: truncation towards zero
ToInt(X, D) == IF X >= 0 THEN X \div D ELSE 0 - ((0 - X) \div D)

\* the body of the loop over final_boxes
ClampBox(b, im, D) ==
    << IF b[1] < 0 THEN 0 ELSE ToInt(b[1], D),
       IF b[2] < 0 THEN 0 ELSE ToInt(b[2], D),
       IF b[3] > im.w * D THEN im.w ELSE ToInt(b[3], D),
       IF b[4] > im.h * D THEN im.h ELSE ToInt(b[4], D) >>

\* a slip: the handler re-raising what it caught
ExceptReraise == [kind |-> "raise", boxes |-> <<>>, exc |-> "TypeError"]

\* except Exception as e: return []
ExceptReturn == [kind |-> "return", boxes |-> <<>>, exc |-> "none"]

\* int(b[k]) of a nan raises ValueError: nan is neither < 0 nor > the size
IntRaises(p) == \E i \in 1..Len(p.rows) : HasNaN(p.rows[i].box)

\* try: final_boxes = pred[:, :4].tolist() ... ; pred is None when nothing passed
\* the score threshold, and None[:, :4] raises TypeError inside the try
ClampAll(p, im, D) ==
    IF p.kind = "array" /\ ~IntRaises(p)
    THEN [kind |-> "return",
          boxes |-> [i \in 1..Len(p.rows) |-> ClampBox(p.rows[i].box, im, D)],
          exc |-> "none"]
    ELSE ExceptReturn

Raise(e) == [kind |-> "raise", boxes |-> <<>>, exc |-> e]

Pending == [kind |-> "pending", boxes |-> <<>>, exc |-> "none"]

DetInputs ==
    /\ img \in { [w |-> s[1], h |-> s[2]] : s \in ImgSizes }
    /\ raw \in Tensors
    /\ output = [px |-> FALSE, rows |-> raw]
    /\ pred = Unset
    /\ result = Pending

\* get_bbox(image_bytes) for an image that decodes to img and a provider that
\* returns the tensor raw
GetBbox ==
    /\ result = Pending
    /\ IF Preproc(img).kind = "raise"
       THEN /\ result' = Raise(Preproc(img).exc)
            /\ UNCHANGED <<output, pred>>
       ELSE IF ~BroadcastOk(Len(output.rows), Len(Grids))
       THEN /\ result' = Raise("ValueError")
            /\ UNCHANGED <<output, pred>>
       ELSE LET decoded == DemoPostprocess(output)
                predictions == decoded.rows
                boxes_xyxy == BoxesXyxy(predictions, img)
                scores == ObjScores(predictions)
            IN  /\ output' = decoded
                /\ \E ord \in DescOrders(ValidScores(scores, ScoreThrDefault,
                                                     ThrDen * ThrDen)) :
                      /\ pred' = MulticlassNms(boxes_xyxy, scores, NmsThrDefault,
                                               ScoreThrDefault, ThrDen * ThrDen,
                                               ord, BoxDen)
                      /\ result' = ClampAll(pred', img, BoxDen)
    /\ UNCHANGED <<img, raw>>

(***************************************************************************)
(* get_bbox lines 181 and 188 on rows of full float precision: objectness  *)
(* and class probabilities in units of 2^-MantBits, scores in units of     *)
(* 2^-(2 * MantBits)                                                       *)
(***************************************************************************)
\* 1.0
FlOne == 2 ^ MantBits

\* objectness 0, 0.75 and 1
ObjPool == {0, 3 * (FlOne \div 4), FlOne}

\* class probabilities 0, 1 and the two neighbouring floats 1 - 3 ulp and
\* 1 - 2 ulp
ClassPool == {0, FlOne - 3, FlOne - 2, FlOne}

MaxScoreRows == 2

\* the i-th decoded row: a box of its own, apart from the others, then
\* objectness and two class probabilities
ScoreRow(i, obj, c0, c1) == <<10 * i, 5, 4, 4, obj, c0, c1>>

ScoreRowsOf(n) ==
    { [i \in 1..n |-> ScoreRow(i, f[i][1], f[i][2], f[i][3])] :
        f \in [1..n -> ObjPool \X ClassPool \X ClassPool] }

ScoreThrs == {0, ScoreThrDefault}

ScoreInputs ==
    /\ sc_rows \in UNION { ScoreRowsOf(n) : n \in 0..MaxScoreRows }
    /\ sc_thr \in ScoreThrs
    /\ sc_dets = Unset

\* boxes_xyxy of the rows, in whole pixels
ScoreBoxes(rows) ==
    [i \in 1..Len(rows) |->
        LET b == CornerForm(rows[i]) IN [c \in 1..4 |-> b[c] \div 2]]

\* scores = predictions[:, 4:5] * predictions[:, 5:] and
\* multiclass_nms(boxes_xyxy, scores, nms_thr=0.45, score_thr)
ScoreNms ==
    /\ sc_dets = Unset
    /\ LET scores == ObjScores(sc_rows)
           boxes == ScoreBoxes(sc_rows)
       IN  \E ord \in DescOrders(ValidScores(scores, sc_thr, FlOne * FlOne)) :
               sc_dets' = MulticlassNms(boxes, scores, NmsThrDefault, sc_thr,
                                        FlOne * FlOne, ord, 1)
    /\ UNCHANGED <<sc_rows, sc_thr>>

(***************************************************************************)
(* demo_postprocess under other configurations: img_size and p6            *)
(***************************************************************************)
\* the heights and widths of the input sizes the engine is set up for
CfgSizes == {16, 24, 32, 64}

\* the tensors handed to demo_postprocess: one row for each grid cell, one
\* row, or none
CfgTensors(img_size, p6) ==
    LET G == Len(GridsAlong(img_size, StridesFor(p6), 1))
    IN  { [i \in 1..n |-> r] : n \in {0, 1, G}, r \in RowPool }

CfgStart ==
    /\ cfg \in [img_size : CfgSizes \X CfgSizes, p6 : BOOLEAN]
    /\ cfg_pc = "new"
    /\ cfg_out \in { [px |-> FALSE, rows |-> t] : t \in CfgTensors(cfg.img_size, cfg.p6) }
    /\ cfg_result = "pending"

\* DetectionEngine.initialize(): the model is loaded, nothing about strides or
\* input size is looked at
CfgInitialize ==
    /\ cfg_pc = "new"
    /\ cfg_pc' = "ready"
    /\ UNCHANGED <<cfg, cfg_out, cfg_result>>

\* demo_postprocess(outputs, img_size, p6)
CfgPostprocess ==
    /\ cfg_pc = "ready"
    /\ cfg_pc' = "done"
    /\ LET grids == GridsAlong(cfg.img_size, StridesFor(cfg.p6), 1)
       IN  IF BroadcastOk(Len(cfg_out.rows), Len(grids))
           THEN /\ cfg_out' = DecodeWith(cfg_out, grids)
                /\ cfg_result' = "decoded"
           ELSE /\ cfg_result' = "ValueError"
                /\ UNCHANGED cfg_out
    /\ UNCHANGED cfg

(***************************************************************************)
(* SlideEngine.slide_match and SlideEngine.slide_comparison                *)
(*                                                                         *)
(* An input is what the caller passes: a value of an unsupported type, a   *)
(* buffer that is no image, or an image of w x h pixels.                   *)
(***************************************************************************)
MaxDim == 2

\* cv2.threshold(diff_gray, 30, 255, ...): gray levels are kept in units of 30
ThrLevel == 1

\* the pictures the calls are run on; R = G = B in every pixel
Patterns == {"dark", "dim", "bright", "left", "top", "spot"}

\* the level of pixel (x, y): 0, 30 or 90 of 255
PatternValue(pat, x, y) ==
    CASE pat = "dark"   -> 0
      [] pat = "dim"    -> 1
      [] pat = "bright" -> 3
      [] pat = "left"   -> IF x = 0 THEN 3 ELSE 0
      [] pat = "top"    -> IF y = 0 THEN 3 ELSE 0
      [] pat = "spot"   -> IF x = 0 /\ y = 1 THEN 3 ELSE 0
      [] pat = "gaps"   -> IF x <= 2 \/ x >= 6 THEN 3 ELSE 0
      [] pat = "spag"   -> IF x <= 3 \/ x >= 7 THEN 3 ELSE 0

SlideInputs ==
    { [kind |-> "unsupported", w |-> 0, h |-> 0, pat |-> "none"],
      [kind |-> "undecodable", w |-> 0, h |-> 0, pat |-> "none"] }
    \cup { [kind |-> "image", w |-> w, h |-> h, pat |-> p] :
              w \in 1..MaxDim, h \in 1..MaxDim, p \in Patterns }

\* pictures 10 wide and 3 high with two changed regions, 3 and 4 columns wide
\* and 3 columns apart, the wider one on the right or on the left
GapInputs ==
    { [kind |-> "image", w |-> 10, h |-> 3, pat |-> p] : p \in {"gaps", "spag"} }

\* the picture without the changes
FullInput == [kind |-> "image", w |-> 10, h |-> 3, pat |-> "dark"]

SlideCalls ==
    { [op |-> "slide_match", simple_target |-> b, target |-> t, background |-> g] :
        b \in BOOLEAN, t \in SlideInputs, g \in SlideInputs }
    \cup
    { [op |-> "slide_comparison", simple_target |-> FALSE, target |-> t, background |-> g] :
        t \in SlideInputs, g \in SlideInputs }
    \cup
    { [op |-> "slide_comparison", simple_target |-> FALSE, target |-> t, background |-> FullInput] :
        t \in GapInputs }

\* the pixel positions of a w x h array: (x, y) is array[y, x]
Cells(w, h) == (0..(w - 1)) \X (0..(h - 1))

\* image_to_numpy(load_image_from_input(x), 'RGB'), one level for the three channels
ToArray(x) ==
    [w |-> x.w, h |-> x.h,
     v |-> [c \in Cells(x.w, x.h) |-> PatternValue(x.pat, c[1], c[2])]]

EmptyArray == [w |-> 0, h |-> 0, v |-> <<>>]

NoArrays == [target |-> EmptyArray, background |-> EmptyArray, work |-> EmptyArray]

\* a correlation value num / sqrt(a * b); this one stands for no value
NoConfidence == [num |-> 0, a |-> 0, b |-> 0]

NoValue == [target |-> <<>>, keys |-> {}, confidence |-> NoConfidence]

SlPending == [kind |-> "pending", exc |-> "none", value |-> NoValue]

SlRaise(e) == [kind |-> "raise", exc |-> e, value |-> NoValue]

SlReturn(v) == [kind |-> "return", exc |-> "none", value |-> v]

\* a slip: the handler letting the exception through as it is
Reraised(e) == e

\* except Exception as e: raise ImageProcessError(...) from e
AsImageProcessError(e) == "ImageProcessError"

\* isinstance(img_input, valid_types)
ValidType(x) == x.kind # "unsupported"

\* Image.open / image.convert / np.array succeed on the input
Decodable(x) == x.kind = "image"

\* cv2.matchTemplate(image, templ): an image smaller than the template in both
\* directions is swapped with it; smaller in one direction only fails the assertion
MatchTemplateFails(image, templ) ==
    /\ image.h < templ.h \/ image.w < templ.w
    /\ ~(image.h <= templ.h /\ image.w <= templ.w)

Channels == 3

\* cv2 arithmetic takes an array of these sizes for a scalar
ScalarLike(x) ==
    \/ x.w = 1 /\ x.h = 1
    \/ x.w = 1 /\ x.h = Channels
    \/ x.w = Channels /\ x.h = 1

\* cv2.absdiff(a, b): arrays of different sizes are rejected unless one is a scalar
AbsdiffFails(a, b) ==
    /\ a.w # b.w \/ a.h # b.h
    /\ ~ScalarLike(a)
    /\ ~ScalarLike(b)

Abs(n) == IF n >= 0 THEN n ELSE 0 - n

\* cv2.absdiff(a, b) where it succeeds: element by element for equal sizes;
\* otherwise the scalar-like operand (a first) gives its first value as a scalar
Absdiff(a, b) ==
    IF a.w = b.w /\ a.h = b.h
    THEN [w |-> a.w, h |-> a.h, v |-> [c \in Cells(a.w, a.h) |-> Abs(a.v[c] - b.v[c])]]
    ELSE IF ScalarLike(a)
    THEN [w |-> b.w, h |-> b.h,
          v |-> [c \in Cells(b.w, b.h) |-> Abs(a.v[<<0, 0>>] - b.v[c])]]
    ELSE [w |-> a.w, h |-> a.h,
          v |-> [c \in Cells(a.w, a.h) |-> Abs(a.v[c] - b.v[<<0, 0>>])]]

\* a slip: THRESH_BINARY_INV
ThresholdInv(a) ==
    [w |-> a.w, h |-> a.h, v |-> [c \in Cells(a.w, a.h) |-> IF a.v[c] > ThrLevel THEN 0 ELSE 1]]

\* cv2.threshold(diff_gray, 30, 255, cv2.THRESH_BINARY): 1 stands for 255
Threshold(a) ==
    [w |-> a.w, h |-> a.h, v |-> [c \in Cells(a.w, a.h) |-> IF a.v[c] > ThrLevel THEN 1 ELSE 0]]

\* the pixels of the array under the 3 x 3 kernel centred at c
Under(a, c) ==
    { d \in Cells(a.w, a.h) : Abs(d[1] - c[1]) <= 1 /\ Abs(d[2] - c[2]) <= 1 }

\* the default border of the morphology leaves what is outside the array out
Dilate(a) ==
    [w |-> a.w, h |-> a.h,
     v |-> [c \in Cells(a.w, a.h) |-> IF \E d \in Under(a, c) : a.v[d] = 1 THEN 1 ELSE 0]]

Erode(a) ==
    [w |-> a.w, h |-> a.h,
     v |-> [c \in Cells(a.w, a.h) |-> IF \A d \in Under(a, c) : a.v[d] = 1 THEN 1 ELSE 0]]

\* cv2.morphologyEx(binary, cv2.MORPH_CLOSE, kernel)
MorphClose(a) == Erode(Dilate(a))

\* cv2.morphologyEx(binary, cv2.MORPH_OPEN, kernel)
MorphOpen(a) == Dilate(Erode(a))

RECURSIVE Grow(_, _)
\* the pixels of S connected to R through neighbours (8-connectivity)
Grow(S, R) ==
    LET more == { d \in S : \E c \in R : Abs(d[1] - c[1]) <= 1 /\ Abs(d[2] - c[2]) <= 1 }
    IN  IF more = R THEN R ELSE Grow(S, more)

\* cv2.findContours(binary, RETR_EXTERNAL, ...): one outer contour for each
\* connected set of non-zero pixels, given here by the pixels it encloses
Contours(a) ==
    LET S == { c \in Cells(a.w, a.h) : a.v[c] = 1 }
    IN  { Grow(S, {c}) : c \in S }

\* cv2.boundingRect(contour) as <<x, y, w, h>>
BoundingRect(C) ==
    LET x0 == CHOOSE x \in { c[1] : c \in C } : \A c \in C : x <= c[1]
        x1 == CHOOSE x \in { c[1] : c \in C } : \A c \in C : x >= c[1]
        y0 == CHOOSE y \in { c[2] : c \in C } : \A c \in C : y <= c[2]
        y1 == CHOOSE y \in { c[2] : c \in C } : \A c \in C : y >= c[2]
    IN  <<x0, y0, x1 - x0 + 1, y1 - y0 + 1>>

\* cv2.contourArea(contour): the area of the polygon through the outermost
\* pixel centres; the contours of the arrays here are filled rectangles, of
\* area (w - 1) * (h - 1)
ContourArea(C) == (BoundingRect(C)[3] - 1) * (BoundingRect(C)[4] - 1)

\* a slip: any contour taken, whatever its area
AnyContours(a) == Contours(a)

\* max(contours, key=cv2.contourArea): a contour of the largest area; which
\* one of several depends on the order findContours lists them in
LargestContours(a) ==
    { C \in Contours(a) : \A D \in Contours(a) : ContourArea(C) >= ContourArea(D) }

\* {'target': [0, 0]}
NoContourValue == [target |-> <<0, 0>>, keys |-> {"target"}, confidence |-> NoConfidence]

\* center_x = x + w // 2, center_y = y + h // 2 with the three keys
RectCentreValue(r) ==
    [target |-> <<r[1] + (r[3] \div 2), r[2] + (r[4] \div 2)>>,
     keys |-> {"target", "target_x", "target_y"}, confidence |-> NoConfidence]

RECURSIVE SumOf(_, _)
SumOf(f, S) ==
    IF S = {} THEN 0
    ELSE LET c == CHOOSE d \in S : TRUE IN f[c] + SumOf(f, S \ {c})

One == [num |-> 1, a |-> 1, b |-> 1]

Zero == [num |-> 0, a |-> 1, b |-> 1]

\* a slip: TM_CCOEFF, the correlation left without its normalisation
Ccoeff(image, templ, x, y) ==
    LET cells == Cells(templ.w, templ.h)
        n == templ.w * templ.h
        win == [c \in cells |-> image.v[<<c[1] + x, c[2] + y>>]]
        tw == [c \in cells |-> templ.v[c] * win[c]]
    IN  [num |-> n * SumOf(tw, cells) - SumOf(templ.v, cells) * SumOf(win, cells),
         a |-> 1, b |-> n * n]

\* TM_CCOEFF_NORMED of the template placed at (x, y) of the image, as
\* num / sqrt(a * b) with a, b the template's and the window's n * sum of squares
\* less the square of the sum. A template without variance gives 1 everywhere,
\* a window without variance 0.
CcoeffNormed(image, templ, x, y) ==
    LET cells == Cells(templ.w, templ.h)
        n == templ.w * templ.h
        win == [c \in cells |-> image.v[<<c[1] + x, c[2] + y>>]]
        tw == [c \in cells |-> templ.v[c] * win[c]]
        tt == [c \in cells |-> templ.v[c] * templ.v[c]]
        ww == [c \in cells |-> win[c] * win[c]]
        st == SumOf(templ.v, cells)
        sw == SumOf(win, cells)
        a == n * SumOf(tt, cells) - st * st
        b == n * SumOf(ww, cells) - sw * sw
    IN  IF a = 0 THEN One
        ELSE IF b = 0 THEN Zero
        ELSE [num |-> n * SumOf(tw, cells) - st * sw, a |-> a, b |-> b]

\* cv2.matchTemplate(image, templ, cv2.TM_CCOEFF_NORMED) where it succeeds: the
\* smaller array is slid over the larger, one value for each placement
MatchSurface(image, templ) ==
    LET swap == image.h < templ.h \/ image.w < templ.w
        big == IF swap THEN templ ELSE image
        small == IF swap THEN image ELSE templ
    IN  [w |-> big.w - small.w + 1, h |-> big.h - small.h + 1,
         v |-> [c \in Cells(big.w - small.w + 1, big.h - small.h + 1) |->
                   CcoeffNormed(big, small, c[1], c[2])]]

\* c1 > c2 for two values of one surface: they have the template in common
\* unless one of them is One or Zero
Greater(c1, c2) ==
    LET q1 == IF c1.a = c2.a THEN c1.b ELSE c1.a * c1.b
        q2 == IF c1.a = c2.a THEN c2.b ELSE c2.a * c2.b
    IN  IF c1.num >= 0 /\ c2.num >= 0 THEN c1.num * c1.num * q2 > c2.num * c2.num * q1
        ELSE IF c1.num < 0 /\ c2.num < 0 THEN c1.num * c1.num * q2 < c2.num * c2.num * q1
        ELSE c1.num >= 0 /\ c2.num < 0

\* c before d in the scan of the rows
ScanBefore(c, d) == c[2] < d[2] \/ (c[2] = d[2] /\ c[1] < d[1])

\* a slip: min_loc taken for max_loc
MinLoc(surface) ==
    CHOOSE c \in DOMAIN surface.v :
        \A d \in DOMAIN surface.v \ {c} :
            \/ Greater(surface.v[d], surface.v[c])
            \/ ~Greater(surface.v[c], surface.v[d]) /\ ScanBefore(c, d)

\* max_loc of cv2.minMaxLoc(result): the first maximum in the scan of the rows
MaxLoc(surface) ==
    CHOOSE c \in DOMAIN surface.v :
        \A d \in DOMAIN surface.v \ {c} :
            \/ Greater(surface.v[c], surface.v[d])
            \/ ~Greater(surface.v[d], surface.v[c]) /\ ScanBefore(c, d)

\* a slip: the whole size of the target added to max_loc
MatchValueFar(surface, target) ==
    LET loc == MaxLoc(surface)
    IN  [target |-> <<loc[1] + target.w, loc[2] + target.h>>,
         keys |-> {"target", "target_x", "target_y", "confidence"},
         confidence |-> surface.v[loc]]

\* center_x = max_loc[0] + target_w // 2, center_y = max_loc[1] + target_h // 2,
\* confidence = float(max_val)
MatchValue(surface, target) ==
    LET loc == MaxLoc(surface)
    IN  [target |-> <<loc[1] + (target.w \div 2), loc[2] + (target.h \div 2)>>,
         keys |-> {"target", "target_x", "target_y", "confidence"},
         confidence |-> surface.v[loc]]

\* the edge maps cv2.Canny is taken to give (1 stands for 255)
EdgePatterns == {"none", "left", "top", "corner"}

EdgeValue(e, x, y) ==
    CASE e = "none"   -> 0
      [] e = "left"   -> IF x = 0 THEN 1 ELSE 0
      [] e = "top"    -> IF y = 0 THEN 1 ELSE 0
      [] e = "corner" -> IF x = 0 /\ y = 0 THEN 1 ELSE 0

IsFlat(a) == \A c, d \in Cells(a.w, a.h) : a.v[c] = a.v[d]

\* cv2.Canny(a, 50, 150) is a function of the array: which edge map it gives
\* for an array that is not flat is left open, a flat array has no edge
CannyOutcomes(a) ==
    { [w |-> a.w, h |-> a.h, v |-> [c \in Cells(a.w, a.h) |-> EdgeValue(e, c[1], c[2])]] :
        e \in IF IsFlat(a) THEN {"none"} ELSE EdgePatterns }

SlideStart ==
    /\ sl_call \in SlideCalls
    /\ sl_pc = "validate"
    /\ sl_steps = <<>>
    /\ sl_arr = NoArrays
    /\ sl_result = SlPending

\* validate_image_input(target_image); validate_image_input(background_image),
\* outside the try
SlideValidate ==
    /\ sl_pc = "validate"
    /\ IF ValidType(sl_call.target) /\ ValidType(sl_call.background)
       THEN /\ sl_pc' = "load"
            /\ UNCHANGED sl_result
       ELSE /\ sl_pc' = "done"
            /\ sl_result' = SlRaise("DDDDOCRError")
    /\ UNCHANGED <<sl_call, sl_steps, sl_arr>>

\* load_image_from_input and image_to_numpy of both inputs, inside the try
SlideLoad ==
    /\ sl_pc = "load"
    /\ IF Decodable(sl_call.target) /\ Decodable(sl_call.background)
       THEN /\ sl_pc' = IF sl_call.op = "slide_match" THEN "gray" ELSE "absdiff"
            /\ sl_arr' = [NoArrays EXCEPT !.target = ToArray(sl_call.target),
                                          !.background = ToArray(sl_call.background)]
            /\ UNCHANGED sl_result
       ELSE /\ sl_pc' = "done"
            /\ sl_result' = SlRaise(AsImageProcessError(AsImageProcessError("UnidentifiedImageError")))
            /\ UNCHANGED sl_arr
    /\ UNCHANGED <<sl_call, sl_steps>>

\* _perform_slide_match: cv2.cvtColor of the target and of the background; the
\* gray level of a pixel with R = G = B is that level
MatchGray ==
    /\ sl_pc = "gray"
    /\ sl_steps' = sl_steps \o <<"cvtColor", "cvtColor">>
    /\ sl_pc' = IF sl_call.simple_target THEN "match" ELSE "edges"
    /\ UNCHANGED <<sl_call, sl_arr, sl_result>>

\* _edge_based_match: cv2.Canny of the target and of the background; equal
\* arrays get equal edge maps
MatchEdges ==
    /\ sl_pc = "edges"
    /\ sl_steps' = sl_steps \o <<"Canny", "Canny">>
    /\ sl_pc' = "match"
    /\ \E et \in CannyOutcomes(sl_arr.target) : \E eb \in CannyOutcomes(sl_arr.background) :
          /\ sl_arr.target = sl_arr.background => et = eb
          /\ sl_arr' = [sl_arr EXCEPT !.target = et, !.background = eb]
    /\ UNCHANGED <<sl_call, sl_result>>

\* cv2.matchTemplate and cv2.minMaxLoc in _simple_template_match or
\* _edge_based_match, whose handler, the one of _perform_slide_match and the
\* one of slide_match each wrap what is raised
MatchTemplate ==
    /\ sl_pc = "match"
    /\ sl_pc' = "done"
    /\ IF MatchTemplateFails(sl_arr.background, sl_arr.target)
       THEN /\ sl_result' = SlRaise(AsImageProcessError(AsImageProcessError(
                                      AsImageProcessError("cv2.error"))))
            /\ UNCHANGED <<sl_steps, sl_arr>>
       ELSE /\ sl_arr' = [sl_arr EXCEPT !.work = MatchSurface(sl_arr.background, sl_arr.target)]
            /\ sl_result' = SlReturn(MatchValue(sl_arr'.work, sl_arr.target))
            /\ sl_steps' = sl_steps \o <<"matchTemplate", "minMaxLoc">>
    /\ UNCHANGED sl_call

\* _perform_slide_comparison: diff = cv2.absdiff(target, background)
CompareAbsdiff ==
    /\ sl_pc = "absdiff"
    /\ IF AbsdiffFails(sl_arr.target, sl_arr.background)
       THEN /\ sl_pc' = "done"
            /\ sl_result' = SlRaise(AsImageProcessError(AsImageProcessError("cv2.error")))
            /\ UNCHANGED <<sl_steps, sl_arr>>
       ELSE /\ sl_pc' = "diffgray"
            /\ sl_arr' = [sl_arr EXCEPT !.work = Absdiff(sl_arr.target, sl_arr.background)]
            /\ sl_steps' = Append(sl_steps, "absdiff")
            /\ UNCHANGED sl_result
    /\ UNCHANGED sl_call

\* diff_gray = cv2.cvtColor(diff, cv2.COLOR_RGB2GRAY); the three channels of
\* diff are equal
CompareGray ==
    /\ sl_pc = "diffgray"
    /\ sl_steps' = Append(sl_steps, "cvtColor")
    /\ sl_pc' = "threshold"
    /\ UNCHANGED <<sl_call, sl_arr, sl_result>>

\* cv2.threshold(diff_gray, 30, 255, cv2.THRESH_BINARY)
CompareThreshold ==
    /\ sl_pc = "threshold"
    /\ sl_arr' = [sl_arr EXCEPT !.work = Threshold(sl_arr.work)]
    /\ sl_steps' = Append(sl_steps, "threshold")
    /\ sl_pc' = "morph"
    /\ UNCHANGED <<sl_call, sl_result>>

\* cv2.morphologyEx: MORPH_CLOSE, then MORPH_OPEN
CompareMorph ==
    /\ sl_pc = "morph"
    /\ sl_arr' = [sl_arr EXCEPT !.work = MorphOpen(MorphClose(sl_arr.work))]
    /\ sl_steps' = sl_steps \o <<"morphologyEx", "morphologyEx">>
    /\ sl_pc' = "contours"
    /\ UNCHANGED <<sl_call, sl_result>>

\* cv2.findContours and the point returned from what it finds: (0, 0) without a
\* contour, else the centre of the bounding rectangle of the contour max() takes
CompareContours ==
    /\ sl_pc = "contours"
    /\ sl_steps' = Append(sl_steps, "findContours")
    /\ sl_pc' = "done"
    /\ IF Contours(sl_arr.work) = {}
       THEN sl_result' = SlReturn(NoContourValue)
       ELSE \E C \in LargestContours(sl_arr.work) :
               sl_result' = SlReturn(RectCentreValue(BoundingRect(C)))
    /\ UNCHANGED <<sl_call, sl_arr>>

(***************************************************************************)
(* Concurrent invocations on the same engine objects                       *)
(*                                                                         *)
(* Each thread makes one call. What a call keeps between its statements    *)
(* (the tensor session.run returned, the arrays of the slide call) lives   *)
(* in a slot of the heap; the engine objects hold session and              *)
(* is_initialized.                                                         *)
(***************************************************************************)
NThreads == 2

Threads == 1..NThreads

\* DetectionEngine after initialize(), SlideEngine after __init__()
EngineReady ==
    [det |-> [session |-> "loaded", is_initialized |-> TRUE],
     slide |-> [is_initialized |-> TRUE]]

\* the calls the threads make
ConcCalls ==
    { [op |-> "get_bbox", img |-> [w |-> 16, h |-> 16], raw |-> r] :
        r \in { << <<4, 4, 0, 0, 18, 18, 2>>, <<0, 0, 0, 0, 0, 0, 0>>,
                   <<6, 12, 1, 0, 12, 12, 12>>, <<0, 0, 0, 0, 0, 0, 0>>,
                   <<0, 0, 0, 0, 0, 0, 0>> >>,
                << <<6, 12, 1, 0, 12, 12, 12>>, <<6, 12, 1, 0, 12, 12, 12>>,
                   <<0, 0, 0, 0, 0, 0, 0>>, <<4, 4, 0, 0, 18, 18, 2>>,
                   <<4, 4, 0, 0, 18, 18, 2>> >> } }
    \cup
    { [op |-> o, target |-> [kind |-> "image", w |-> p[1], h |-> p[1], pat |-> p[2]],
       background |-> [kind |-> "image", w |-> 2, h |-> 2, pat |-> p[3]]] :
        o \in {"slide_match", "slide_comparison"},
        p \in { <<2, "left", "dark">>, <<1, "bright", "top">> } }

\* a slip: every call keeping its arrays in the same place
SharedSlot(t) == 1

\* the arrays of a call are locals of the call: a slot of its own
OwnSlot(t) == t

EmptySlot == [out |-> [px |-> FALSE, rows |-> <<>>], arr |-> NoArrays]

ThreadStart(c) == [call |-> c, pc |-> "start", result |-> <<>>]

ConcStart ==
    /\ engine = EngineReady
    /\ th \in [Threads -> { ThreadStart(c) : c \in ConcCalls }]
    /\ heap = [s \in Threads |-> EmptySlot]
    /\ overlapped = FALSE

\* another thread is between two statements of its call
Overlaps(t) == \E u \in Threads \ {t} : th[u].pc \notin {"start", "done"}

\* what get_bbox returns from the tensor as demo_postprocess left it
BboxOutcomes(im, decoded) ==
    LET boxes_xyxy == BoxesXyxy(decoded.rows, im)
        scores == ObjScores(decoded.rows)
    IN  { ClampAll(MulticlassNms(boxes_xyxy, scores, NmsThrDefault, ScoreThrDefault,
                                 ThrDen * ThrDen, ord, BoxDen), im, BoxDen) :
            ord \in DescOrders(ValidScores(scores, ScoreThrDefault, ThrDen * ThrDen)) }

\* what _perform_slide_comparison returns from the cleaned mask
ComparisonOutcomes(mask) ==
    IF Contours(mask) = {} THEN { NoContourValue }
    ELSE { RectCentreValue(BoundingRect(C)) : C \in LargestContours(mask) }

\* output = self.session.run(None, ort_inputs): a new array for the call
ConcRun(t) ==
    /\ th[t].call.op = "get_bbox"
    /\ th[t].pc = "start"
    /\ engine.det.session = "loaded"
    /\ heap' = [heap EXCEPT ![OwnSlot(t)].out = [px |-> FALSE, rows |-> th[t].call.raw]]
    /\ th' = [th EXCEPT ![t].pc = "decode"]
    /\ overlapped' = (overlapped \/ Overlaps(t))
    /\ UNCHANGED engine

\* predictions = self.demo_postprocess(output[0], (416, 416))[0]
ConcDecode(t) ==
    /\ th[t].pc = "decode"
    /\ heap' = [heap EXCEPT ![OwnSlot(t)].out = DemoPostprocess(heap[OwnSlot(t)].out)]
    /\ th' = [th EXCEPT ![t].pc = "clamp"]
    /\ overlapped' = (overlapped \/ Overlaps(t))
    /\ UNCHANGED engine

\* the rest of get_bbox: scores, boxes_xyxy, multiclass_nms and the clamp
ConcClamp(t) ==
    /\ th[t].pc = "clamp"
    /\ \E r \in BboxOutcomes(th[t].call.img, heap[OwnSlot(t)].out) :
          th' = [th EXCEPT ![t].pc = "done", ![t].result = r]
    /\ overlapped' = (overlapped \/ Overlaps(t))
    /\ UNCHANGED <<engine, heap>>

\* slide_match, slide_comparison: the two images loaded and turned into arrays
ConcLoad(t) ==
    /\ th[t].call.op \in {"slide_match", "slide_comparison"}
    /\ th[t].pc = "start"
    /\ heap' = [heap EXCEPT ![OwnSlot(t)].arr =
                   [NoArrays EXCEPT !.target = ToArray(th[t].call.target),
                                    !.background = ToArray(th[t].call.background)]]
    /\ th' = [th EXCEPT ![t].pc = IF th[t].call.op = "slide_match" THEN "match" ELSE "absdiff"]
    /\ overlapped' = (overlapped \/ Overlaps(t))
    /\ UNCHANGED engine

\* _perform_slide_match with simple_target: cvtColor, matchTemplate, minMaxLoc
ConcMatch(t) ==
    /\ th[t].pc = "match"
    /\ LET a == heap[OwnSlot(t)].arr
       IN  th' = [th EXCEPT ![t].pc = "done",
                            ![t].result = MatchValue(MatchSurface(a.background, a.target),
                                                     a.target)]
    /\ overlapped' = (overlapped \/ Overlaps(t))
    /\ UNCHANGED <<engine, heap>>

\* _perform_slide_comparison: diff = cv2.absdiff(target, background)
ConcAbsdiff(t) ==
    /\ th[t].pc = "absdiff"
    /\ LET a == heap[OwnSlot(t)].arr
       IN  heap' = [heap EXCEPT ![OwnSlot(t)].arr.work = Absdiff(a.target, a.background)]
    /\ th' = [th EXCEPT ![t].pc = "mask"]
    /\ overlapped' = (overlapped \/ Overlaps(t))
    /\ UNCHANGED engine

\* cvtColor, threshold and the two morphologyEx on the difference
ConcMask(t) ==
    /\ th[t].pc = "mask"
    /\ heap' = [heap EXCEPT ![OwnSlot(t)].arr.work =
                   MorphOpen(MorphClose(Threshold(heap[OwnSlot(t)].arr.work)))]
    /\ th' = [th EXCEPT ![t].pc = "contours"]
    /\ overlapped' = (overlapped \/ Overlaps(t))
    /\ UNCHANGED engine

\* findContours and the point returned
ConcContours(t) ==
    /\ th[t].pc = "contours"
    /\ \E r \in ComparisonOutcomes(heap[OwnSlot(t)].arr.work) :
          th' = [th EXCEPT ![t].pc = "done", ![t].result = r]
    /\ overlapped' = (overlapped \/ Overlaps(t))
    /\ UNCHANGED <<engine, heap>>

\* what the call returns when nothing else runs
AloneOutcomes(c) ==
    IF c.op = "get_bbox"
    THEN BboxOutcomes(c.img, DemoPostprocess([px |-> FALSE, rows |-> c.raw]))
    ELSE IF c.op = "slide_match"
    THEN { MatchValue(MatchSurface(ToArray(c.background), ToArray(c.target)),
                      ToArray(c.target)) }
    ELSE ComparisonOutcomes(MorphOpen(MorphClose(Threshold(
                                Absdiff(ToArray(c.target), ToArray(c.background))))))

(***************************************************************************)
(* Specifications                                                          *)
(***************************************************************************)
SupIdle ==
    /\ cand = <<>>
    /\ score_thr = ScoreThrDefault
    /\ dets = [t \in NmsThrs |-> Unset]
    /\ re_thr = NmsThrDefault
    /\ dets_re = Unset

DetIdle ==
    /\ img = [w |-> InputSize, h |-> InputSize]
    /\ raw = <<>>
    /\ output = [px |-> FALSE, rows |-> <<>>]
    /\ pred = Unset
    /\ result = Pending

SlideIdle ==
    /\ sl_call = [op |-> "none"]
    /\ sl_pc = "idle"
    /\ sl_steps = <<>>
    /\ sl_arr = NoArrays
    /\ sl_result = SlPending

(***************************************************************************)
(* The life of a DetectionEngine object: initialize, is_ready, predict,    *)
(* switch_device and cleanup called one after the other                    *)
(* (ddddocr/core/base.py, ddddocr/core/detection_engine.py)                *)
(***************************************************************************)
\* how many times the model is loaded into one engine object
MaxLoads == 3

\* self.session = None
NoSession == 0

\* what is passed to predict: encoded image bytes, bytes that are no image, a
\* PIL image, a path, an array, and an object of an unsupported type
PredictInputs == {"bytes", "badbytes", "pil", "path", "ndarray", "int"}

\* valid_types of validate_image_input
ValidTypes == {"bytes", "badbytes", "pil", "path", "ndarray"}

NoCall ==
    [op |-> "none", arg |-> "none", kind |-> "return", exc |-> "none",
     value |-> "none", validated |-> FALSE, ran |-> FALSE]

\* BaseEngine.__init__ followed by self.initialize(): a constructor that
\* returned an object has loaded the model
Constructed ==
    [session |-> 1, is_initialized |-> TRUE, use_gpu |-> FALSE, device_id |-> 0]

\* return self.is_initialized and self.session is not None
IsReady(obj) == obj.is_initialized /\ obj.session # NoSession

\* if self.session: del self.session; self.session = None
\* self.is_initialized = False
Cleaned(obj) == [obj EXCEPT !.session = NoSession, !.is_initialized = FALSE]

\* a slip: validate_image_input called ahead of the is_ready test
PredictOutcomesValidateFirst(obj, input) ==
    IF input \notin ValidTypes
    THEN {[NoCall EXCEPT !.op = "predict", !.arg = input, !.kind = "raise",
                         !.exc = "DDDDOCRError", !.validated = TRUE]}
    ELSE IF ~IsReady(obj)
    THEN {[NoCall EXCEPT !.op = "predict", !.arg = input, !.kind = "raise",
                         !.exc = "ModelLoadError", !.validated = TRUE]}
    ELSE {[NoCall EXCEPT !.op = "predict", !.arg = input, !.kind = "return",
                         !.value = "boxes", !.validated = TRUE, !.ran = TRUE]}

\* predict: the is_ready test, then validate_image_input, then get_bbox inside
\* try / except Exception -> ImageProcessError; get_bbox calls
\* self.session.get_inputs() and self.session.run once the image is decoded
\* and letterboxed
PredictOutcomes(obj, input) ==
    IF ~IsReady(obj)
    THEN {[NoCall EXCEPT !.op = "predict", !.arg = input, !.kind = "raise",
                         !.exc = "ModelLoadError"]}
    ELSE IF input \notin ValidTypes
    THEN {[NoCall EXCEPT !.op = "predict", !.arg = input, !.kind = "raise",
                         !.exc = "DDDDOCRError", !.validated = TRUE]}
    ELSE {[NoCall EXCEPT !.op = "predict", !.arg = input, !.kind = "raise",
                         !.exc = AsImageProcessError("cv2.error"),
                         !.validated = TRUE, !.ran = r] : r \in BOOLEAN}
         \cup (IF input = "badbytes" THEN {}
               ELSE {[NoCall EXCEPT !.op = "predict", !.arg = input,
                                    !.kind = "return", !.value = "boxes",
                                    !.validated = TRUE, !.ran = TRUE]})

LcStart ==
    /\ lc_obj = Constructed
    /\ lc_loads = 1
    /\ lc_call = NoCall

LcIdle == LcStart

\* initialize(): load_detection_model() either returns a new session, which is
\* stored before is_initialized is set, or raises, and then neither attribute
\* is assigned
LcInitialize ==
    \/ /\ lc_loads < MaxLoads
       /\ lc_loads' = lc_loads + 1
       /\ lc_obj' = [lc_obj EXCEPT !.session = lc_loads + 1, !.is_initialized = TRUE]
       /\ lc_call' = [NoCall EXCEPT !.op = "initialize"]
    \/ /\ lc_call' = [NoCall EXCEPT !.op = "initialize", !.kind = "raise",
                                    !.exc = "ModelLoadError"]
       /\ UNCHANGED <<lc_obj, lc_loads>>

LcIsReady ==
    /\ lc_call' = [NoCall EXCEPT !.op = "is_ready", !.value = IsReady(lc_obj)]
    /\ UNCHANGED <<lc_obj, lc_loads>>

LcPredict ==
    /\ \E input \in PredictInputs : lc_call' \in PredictOutcomes(lc_obj, input)
    /\ UNCHANGED <<lc_obj, lc_loads>>

\* switch_device: the attributes are set when they differ; _reload_model(),
\* called when is_initialized, is `pass`
LcSwitchDevice ==
    /\ \E g \in BOOLEAN : \E d \in 0..1 :
          /\ lc_obj' = [lc_obj EXCEPT !.use_gpu = g, !.device_id = d]
          /\ lc_call' = [NoCall EXCEPT !.op = "switch_device", !.arg = <<g, d>>]
    /\ UNCHANGED lc_loads

LcCleanup ==
    /\ lc_obj' = Cleaned(lc_obj)
    /\ lc_call' = [NoCall EXCEPT !.op = "cleanup"]
    /\ UNCHANGED lc_loads

ConcIdle ==
    /\ engine = EngineReady
    /\ th = <<>>
    /\ heap = <<>>
    /\ overlapped = FALSE

CfgIdle ==
    /\ cfg = [img_size |-> <<InputSize, InputSize>>, p6 |-> FALSE]
    /\ cfg_pc = "idle"
    /\ cfg_out = [px |-> FALSE, rows |-> <<>>]
    /\ cfg_result = "pending"

ScIdle ==
    /\ sc_rows = <<>>
    /\ sc_thr = ScoreThrDefault
    /\ sc_dets = Unset

NmIdle ==
    /\ nm_pc = "idle"
    /\ nm_thr = NmsThrDefault
    /\ nm_order = <<>>
    /\ nm_keep = <<>>

\* the parts that stand still while the Suppressor, get_bbox, a slide call or
\* the threads run
OthersIdle == ConcIdle /\ CfgIdle /\ ScIdle /\ NmIdle /\ LcIdle

\* the Suppressor on its own
InitSup == SupInputs /\ DetIdle /\ SlideIdle /\ OthersIdle

NextSup ==
    \/ Suppress /\ UNCHANGED <<detVars, slVars, concVars, cfgVars, scVars, nmVars, lcVars>>
    \/ Resuppress /\ UNCHANGED <<detVars, slVars, concVars, cfgVars, scVars, nmVars, lcVars>>

SpecSup == InitSup /\ [][NextSup]_vars

\* detection decoding
InitDet == DetInputs /\ SupIdle /\ SlideIdle /\ OthersIdle

NextDet == GetBbox /\ UNCHANGED <<supVars, slVars, concVars, cfgVars, scVars, nmVars, lcVars>>

SpecDet == InitDet /\ [][NextDet]_vars

\* one slide call
InitSlide == SlideStart /\ SupIdle /\ DetIdle /\ OthersIdle

NextSlide ==
    \/ SlideValidate /\ UNCHANGED <<supVars, detVars, concVars, cfgVars, scVars, nmVars, lcVars>>
    \/ SlideLoad /\ UNCHANGED <<supVars, detVars, concVars, cfgVars, scVars, nmVars, lcVars>>
    \/ MatchGray /\ UNCHANGED <<supVars, detVars, concVars, cfgVars, scVars, nmVars, lcVars>>
    \/ MatchEdges /\ UNCHANGED <<supVars, detVars, concVars, cfgVars, scVars, nmVars, lcVars>>
    \/ MatchTemplate /\ UNCHANGED <<supVars, detVars, concVars, cfgVars, scVars, nmVars, lcVars>>
    \/ CompareAbsdiff /\ UNCHANGED <<supVars, detVars, concVars, cfgVars, scVars, nmVars, lcVars>>
    \/ CompareGray /\ UNCHANGED <<supVars, detVars, concVars, cfgVars, scVars, nmVars, lcVars>>
    \/ CompareThreshold /\ UNCHANGED <<supVars, detVars, concVars, cfgVars, scVars, nmVars, lcVars>>
    \/ CompareMorph /\ UNCHANGED <<supVars, detVars, concVars, cfgVars, scVars, nmVars, lcVars>>
    \/ CompareContours /\ UNCHANGED <<supVars, detVars, concVars, cfgVars, scVars, nmVars, lcVars>>

SpecSlide == InitSlide /\ [][NextSlide]_vars

\* calls made at the same time
InitConc == ConcStart /\ SupIdle /\ DetIdle /\ SlideIdle /\ CfgIdle /\ ScIdle /\ NmIdle /\ LcIdle

NextConc ==
    \/ \E t \in Threads : ConcRun(t) /\ UNCHANGED <<supVars, detVars, slVars, cfgVars, scVars, nmVars, lcVars>>
    \/ \E t \in Threads : ConcDecode(t) /\ UNCHANGED <<supVars, detVars, slVars, cfgVars, scVars, nmVars, lcVars>>
    \/ \E t \in Threads : ConcClamp(t) /\ UNCHANGED <<supVars, detVars, slVars, cfgVars, scVars, nmVars, lcVars>>
    \/ \E t \in Threads : ConcLoad(t) /\ UNCHANGED <<supVars, detVars, slVars, cfgVars, scVars, nmVars, lcVars>>
    \/ \E t \in Threads : ConcMatch(t) /\ UNCHANGED <<supVars, detVars, slVars, cfgVars, scVars, nmVars, lcVars>>
    \/ \E t \in Threads : ConcAbsdiff(t) /\ UNCHANGED <<supVars, detVars, slVars, cfgVars, scVars, nmVars, lcVars>>
    \/ \E t \in Threads : ConcMask(t) /\ UNCHANGED <<supVars, detVars, slVars, cfgVars, scVars, nmVars, lcVars>>
    \/ \E t \in Threads : ConcContours(t) /\ UNCHANGED <<supVars, detVars, slVars, cfgVars, scVars, nmVars, lcVars>>

SpecConc == InitConc /\ [][NextConc]_vars

\* setting the engine up and decoding under a configuration
InitCfg == CfgStart /\ SupIdle /\ DetIdle /\ SlideIdle /\ ConcIdle /\ ScIdle /\ NmIdle /\ LcIdle

NextCfg ==
    \/ CfgInitialize /\ UNCHANGED <<supVars, detVars, slVars, concVars, scVars, nmVars, lcVars>>
    \/ CfgPostprocess /\ UNCHANGED <<supVars, detVars, slVars, concVars, scVars, nmVars, lcVars>>

SpecCfg == InitCfg /\ [][NextCfg]_vars

\* the scoring of decoded rows and their suppression, at float precision
InitScore == ScoreInputs /\ SupIdle /\ DetIdle /\ SlideIdle /\ ConcIdle /\ CfgIdle /\ NmIdle /\ LcIdle

NextScore == ScoreNms /\ UNCHANGED <<supVars, detVars, slVars, concVars, cfgVars, nmVars, lcVars>>

SpecScore == InitScore /\ [][NextScore]_vars

\* the loop of nms, one iteration at a time
InitNms == NmsInputs /\ SupIdle /\ DetIdle /\ SlideIdle /\ ConcIdle /\ CfgIdle /\ ScIdle /\ LcIdle

NextNms ==
    \/ NmsEnter /\ UNCHANGED <<detVars, slVars, concVars, cfgVars, scVars, lcVars>>
    \/ NmsIterate /\ UNCHANGED <<supVars, detVars, slVars, concVars, cfgVars, scVars, lcVars>>
    \/ NmsReturn /\ UNCHANGED <<supVars, detVars, slVars, concVars, cfgVars, scVars, lcVars>>

SpecNms == InitNms /\ [][NextNms]_vars

\* the interpreter goes on with the next statement for as long as there is one
SpecNmsFair == SpecNms /\ WF_vars(NextNms)

\* one DetectionEngine object and the calls made on it
InitLife == LcStart /\ SupIdle /\ DetIdle /\ SlideIdle /\ ConcIdle /\ CfgIdle /\ ScIdle /\ NmIdle

NextLife ==
    \/ LcInitialize /\ UNCHANGED <<supVars, detVars, slVars, concVars, cfgVars, scVars, nmVars>>
    \/ LcIsReady /\ UNCHANGED <<supVars, detVars, slVars, concVars, cfgVars, scVars, nmVars>>
    \/ LcPredict /\ UNCHANGED <<supVars, detVars, slVars, concVars, cfgVars, scVars, nmVars>>
    \/ LcSwitchDevice /\ UNCHANGED <<supVars, detVars, slVars, concVars, cfgVars, scVars, nmVars>>
    \/ LcCleanup /\ UNCHANGED <<supVars, detVars, slVars, concVars, cfgVars, scVars, nmVars>>

SpecLife == InitLife /\ [][NextLife]_vars

(***************************************************************************)
(* Claims about detection decoding (SpecDet)                               *)
(***************************************************************************)
BoxInside(b, im) ==
    /\ 0 <= b[1] /\ b[1] <= b[3] /\ b[3] <= im.w
    /\ 0 <= b[2] /\ b[2] <= b[4] /\ b[4] <= im.h

\* C1: every box get_bbox returns satisfies 0 <= x_min <= x_max <= W and
\* 0 <= y_min <= y_max <= H, wherever the surviving box lies
C1_BoxesInsideImage ==
    result.kind = "return" =>
        \A i \in 1..Len(result.boxes) : BoxInside(result.boxes[i], img)

\* C2: when multiclass NMS returns nothing (no best score above the score
\* threshold), get_bbox returns the empty list and raises nothing
C2_NoneGivesEmptyList ==
    (result # Pending /\ pred = NoneResult) =>
        (result.kind = "return" /\ result.boxes = <<>>)

C2_Witness ==
    /\ pred = NoneResult
    /\ Len(raw) = Len(Grids)
    /\ result.kind = "return"
    /\ result.boxes = <<>>

\* the real value of column c of a row, as a pair <<unit, value>>; two cells
\* are equal reals iff the pairs agree after conversion to a common unit
SameCell(c, before, after, px) ==
    IF ~px \/ c > 4 THEN before = after
    ELSE IF c <= 2 THEN before = RawUnit * after     \* before / RawUnit = after
    ELSE before = 0 /\ after = 0                     \* before * ln 2 = after

\* C7: after get_bbox every element of the tensor the provider supplied equals
\* its value before the call
C7_TensorUnchanged ==
    result # Pending =>
        /\ Len(output.rows) = Len(raw)
        /\ \A i \in 1..Len(raw) : \A c \in 1..Len(raw[i]) :
              SameCell(c, raw[i][c], output.rows[i][c], output.px)

\* C8: a tensor with zero rows, once the provider has returned it, decodes to
\* the empty box list without an error
C8_ZeroRowsGiveEmptyList ==
    (result # Pending /\ ~ResizeFails(img) /\ raw = <<>>) =>
        (result.kind = "return" /\ result.boxes = <<>>)

\* raw centre offsets in [0, 1)
OffsetsInCell(row) ==
    /\ row[1] # NaN
    /\ 0 <= row[1] /\ row[1] < RawUnit
    /\ 0 <= row[2] /\ row[2] < RawUnit

\* the centre (cx, cy), in pixels of the network input, lies in the cell
CentreInCell(row, cell) ==
    /\ cell.gx * cell.stride <= row[1] /\ row[1] < (cell.gx + 1) * cell.stride
    /\ cell.gy * cell.stride <= row[2] /\ row[2] < (cell.gy + 1) * cell.stride

\* the row of the scenario: cell offsets inside the cell, objectness 0.9,
\* class-0 score 0.9
ScenarioRow(row) == OffsetsInCell(row) /\ row[5] = 18 /\ row[6] = 18

\* the decoded box has confidence 0.81 and its centre in the top-left cell
ScenarioDecoded ==
    /\ result.kind = "return"
    /\ pred.kind = "array"
    /\ Len(pred.rows) = 1
    /\ pred.rows[1].score * 100 = 81 * ThrDen * ThrDen
    /\ output.px
    /\ CentreInCell(output.rows[1], [gx |-> 0, gy |-> 0, stride |-> Strides[1]])

CentreForm(b) == <<b[1] + b[3], b[2] + b[4], b[3] - b[1], b[4] - b[2]>>

\* C17: the corner form of a decoded (cx, cy, w, h), converted back to centre
\* and size, gives (cx, cy, w, h) again
C17_CornerRoundTrip ==
    (result # Pending /\ output.px) =>
        \A i \in 1..Len(output.rows) :
            LET p == output.rows[i]
            IN  ~HasNaN(p) =>
                    CentreForm(CornerForm(p)) = <<4 * p[1], 4 * p[2], 2 * p[3], 2 * p[4]>>

C17_Witness ==
    /\ result.kind = "return"
    /\ output.px
    /\ \E i \in 1..Len(output.rows) :
          /\ CornerForm(output.rows[i]) = <<-4, 16, 28, 32>>
          /\ CentreForm(CornerForm(output.rows[i])) = <<24, 48, 32, 16>>

\* C22: for every image of at least one pixel each way preproc succeeds, the
\* resized image fills the rows [0, floor(H * r)) and columns [0, floor(W * r))
\* of the canvas, both within the target size, and the rest of the canvas is 114
C22_LetterboxSucceeds ==
    (result # Pending /\ img.w >= 1 /\ img.h >= 1) =>
        LET p == Preproc(img)
            rw == (img.w * InputSize) \div RatioDen(img)
            rh == (img.h * InputSize) \div RatioDen(img)
        IN  /\ p.kind = "return"
            /\ result.kind = "raise" => result.exc # "cv2.error"
            /\ rw <= InputSize /\ rh <= InputSize
            /\ \A c \in DOMAIN p.canvas :
                  p.canvas[c] = "resized" <=> (c[1] < rw /\ c[2] < rh)

\* the rows of boxes_xyxy nms can be given: finite, with x2 >= x1 and y2 >= y1
ProperBoxes ==
    LET b == BoxesXyxy(output.rows, img)
    IN  { i \in 1..Len(b) : ~HasNaN(b[i]) /\ b[i][3] >= b[i][1] /\ b[i][4] >= b[i][2] }

\* C28: for boxes with x2 >= x1 and y2 >= y1 the denominator areas[i] +
\* areas[j] - inter of the overlap is above zero and the overlap is between 0
\* and 1
C28_OverlapWellDefined ==
    (result # Pending /\ output.px) =>
        LET b == BoxesXyxy(output.rows, img)
        IN  \A i, j \in ProperBoxes :
                /\ OvrDen(b[i], b[j], BoxDen) > 0
                /\ Inter(b[i], b[j], BoxDen) >= 0
                /\ Inter(b[i], b[j], BoxDen) <= OvrDen(b[i], b[j], BoxDen)

\* decoded boxes that do not meet, boxes that partly overlap and a box of the
\* smallest width the rows give
C28_Witness ==
    /\ result.kind = "return"
    /\ output.px
    /\ LET b == BoxesXyxy(output.rows, img)
       IN  /\ \E i, j \in ProperBoxes : Inter(b[i], b[j], BoxDen) = 0
           /\ \E i, j \in ProperBoxes :
                 /\ Inter(b[i], b[j], BoxDen) > 0
                 /\ Inter(b[i], b[j], BoxDen) < Area(b[i], BoxDen)
                 /\ Inter(b[i], b[j], BoxDen) < Area(b[j], BoxDen)
           /\ \E i \in 1..Len(b) : i \notin ProperBoxes

\* a slide call that cannot complete: an input of another type or that is no
\* image, or sizes the cv2 call rejects
SlideFails ==
    \/ ~ValidType(sl_call.target) \/ ~ValidType(sl_call.background)
    \/ ~Decodable(sl_call.target) \/ ~Decodable(sl_call.background)
    \/ /\ sl_call.op = "slide_match"
       /\ MatchTemplateFails(ToArray(sl_call.background), ToArray(sl_call.target))
    \/ /\ sl_call.op = "slide_comparison"
       /\ AbsdiffFails(ToArray(sl_call.target), ToArray(sl_call.background))

\* C11: no call whose internal computation fails returns what a successful
\* empty outcome returns: the empty box list, a zero-confidence match or (0, 0)
C11_FailureNotEmptyResult ==
    /\ (result # Pending /\ pred.kind = "array" /\ IntRaises(pred)) =>
           ~(result.kind = "return" /\ result.boxes = <<>>)
    /\ (sl_pc = "done" /\ SlideFails) => sl_result.kind = "raise"

(***************************************************************************)
(* Claims about the Suppressor (SpecSup)                                   *)
(***************************************************************************)
Count(d) == Len(d.rows)

BoxScore(d) == [i \in 1..Len(d.rows) |-> <<d.rows[i].box, d.rows[i].score>>]

Occurrences(seq, v) == Cardinality({ i \in 1..Len(seq) : seq[i] = v })

SameBag(s1, s2) ==
    /\ Len(s1) = Len(s2)
    /\ \A i \in 1..Len(s1) : Occurrences(s1, s1[i]) = Occurrences(s2, s1[i])

DistinctScores(d) ==
    \A i, j \in 1..Len(d.rows) : i # j => d.rows[i].score # d.rows[j].score

BestScores == ClsScores(CandScores(cand))

ValidSet == { p \in 1..Len(cand) : ScorePasses(BestScores[p], score_thr, ThrDen) }

Monotone ==
    \A t1, t2 \in NmsThrs : t1 < t2 => Count(dets[t1]) <= Count(dets[t2])

\* C4 as stated: for t1 < t2 no more boxes survive at t_nms = t1 than at t2
C4_Monotone == Monotone

\* C4 as amended: that holds when at most three candidates pass the score filter
C4_MonotoneUpToThree == Cardinality(ValidSet) <= 3 => Monotone

C4_Witness ==
    /\ Cardinality(ValidSet) = 3
    /\ \E t1, t2 \in NmsThrs :
          t1 < t2 /\ dets[t1].kind = "array" /\ Count(dets[t1]) < Count(dets[t2])

Srcs(d) == { d.rows[i].src : i \in 1..Len(d.rows) }

\* IoU > t_nms
Overlapping(p, q, t) == ~OvrLeq(cand[p].box, cand[q].box, t, 1)

\* C5: of two score-passing candidates whose IoU exceeds t_nms the output never
\* holds both, the lower-scoring one is absent when the higher-scoring one is
\* present, and when they are the only candidates just the higher one survives
C5_OverlappingPair ==
    LET valid == ValidSet
        best == [p \in valid |-> BestScores[p]]
    IN  \A t \in NmsThrs :
            dets[t].kind = "array" =>
                LET out == Srcs(dets[t])
                IN  /\ \A p \in valid \cap out : \A q \in valid \ {p} :
                           q \in out => ~Overlapping(p, q, t)
                    /\ Cardinality(valid) = 2 =>
                           \A p \in valid : \A q \in valid \ {p} :
                               (best[p] > best[q] /\ Overlapping(p, q, t)) => out = {p}

\* IoU 0.9, scores 0.8 and 0.6, t_nms 0.45
C5_Witness ==
    /\ dets[NmsThrDefault].kind = "array"
    /\ Len(cand) = 2
    /\ 10 * Inter(cand[1].box, cand[2].box, 1) = 9 * OvrDen(cand[1].box, cand[2].box, 1)
    /\ \E p, q \in 1..2 :
          /\ BestScores[p] = 16 /\ BestScores[q] = 12
          /\ Srcs(dets[NmsThrDefault]) = {p}

\* C6: the scores along the returned list do not increase, and its first
\* element has the largest score among the candidates passing the filter
C6_SelectionOrder ==
    LET valid == ValidSet
        best == [p \in valid |-> BestScores[p]]
    IN  \A t \in NmsThrs :
            dets[t].kind = "array" =>
                LET rows == dets[t].rows
                IN  /\ \A i \in 1..(Len(rows) - 1) : rows[i].score >= rows[i + 1].score
                    /\ \A p \in valid : rows[1].score >= best[p]

C6_Witness ==
    /\ dets[NmsThrDefault].kind = "array"
    /\ Count(dets[NmsThrDefault]) >= 3
    /\ Count(dets[NmsThrDefault]) < Cardinality(ValidSet)
    /\ dets[NmsThrDefault].rows[1].score > dets[NmsThrDefault].rows[3].score

\* inter / (area_i + area_j - inter) > t_nms in the inclusive pixel convention,
\* written out from the corner coordinates
IoUAbove(bi, bj, t) ==
    LET area_i == (bi[3] - bi[1] + 1) * (bi[4] - bi[2] + 1)
        area_j == (bj[3] - bj[1] + 1) * (bj[4] - bj[2] + 1)
        iw == Min(bi[3], bj[3]) - Max(bi[1], bj[1]) + 1
        ih == Min(bi[4], bj[4]) - Max(bi[2], bj[2]) + 1
        inter == (IF iw > 0 THEN iw ELSE 0) * (IF ih > 0 THEN ih ELSE 0)
    IN  inter * ThrDen > t * (area_i + area_j - inter)

\* C18: a score-passing box is missing from the output exactly when its IoU
\* with a selected box is above t_nms; a box whose IoU with every selected box
\* is at most t_nms, equality included, is in the output
C18_DiscardIffAbove ==
    \A t \in NmsThrs :
        dets[t].kind = "array" =>
            LET out == Srcs(dets[t])
            IN  \A j \in ValidSet :
                    (j \notin out) <=>
                        \E i \in out \ {j} : IoUAbove(cand[i].box, cand[j].box, t)

\* at t_nms = 0.2 a box of IoU 1/5 with a selected box stays and a box of IoU
\* 1/3 goes
C18_Witness ==
    LET t == 4
    IN  /\ dets[t].kind = "array"
        /\ \E i, j \in Srcs(dets[t]) :
              /\ i # j
              /\ 5 * Inter(cand[i].box, cand[j].box, 1) = OvrDen(cand[i].box, cand[j].box, 1)
              /\ dets[t].rows[1].src = i
        /\ \E i \in Srcs(dets[t]) : \E j \in ValidSet \ Srcs(dets[t]) :
              /\ 3 * Inter(cand[i].box, cand[j].box, 1) = OvrDen(cand[i].box, cand[j].box, 1)
              /\ BestScores[i] > BestScores[j]

\* C19 as stated: of two candidates with equal scores the one with the lower
\* row index is selected first
C19_LowerIndexFirst ==
    \A t \in NmsThrs :
        dets[t].kind = "array" =>
            \A i, k \in 1..Count(dets[t]) :
                (i < k /\ dets[t].rows[i].score = dets[t].rows[k].score) =>
                    dets[t].rows[i].src < dets[t].rows[k].src

\* what the calls of the Suppressor made so far returned
Returned == { dets[t] : t \in { u \in NmsThrs : dets[u] # Unset } }

\* C26: when a candidate passes the score filter the call returns an array of
\* at least one row, one of them a candidate of the highest score; dets is
\* never read unassigned
C26_KeepNotEmpty ==
    /\ \A d \in Returned \cup {dets_re} : d.kind # "UnboundLocalError"
    /\ \A d \in Returned :
          ValidSet # {} =>
              /\ d.kind = "array"
              /\ Len(d.rows) >= 1
              /\ \E k \in 1..Len(d.rows) :
                    /\ d.rows[k].src \in ValidSet
                    /\ \A p \in ValidSet : BestScores[d.rows[k].src] >= BestScores[p]

\* one candidate passes and one does not: the call returns the one row
C26_Witness ==
    /\ Len(cand) = 2
    /\ Cardinality(ValidSet) = 1
    /\ \A t \in NmsThrs : dets[t].kind = "array" /\ Len(dets[t].rows) = 1

\* C27: a score-passing candidate that is not in the output has IoU above
\* t_nms with a box of the output whose score is at least its own
C27_DroppedHasBetterOverlap ==
    \A t \in NmsThrs :
        dets[t].kind = "array" =>
            \A j \in ValidSet \ Srcs(dets[t]) :
                \E i \in Srcs(dets[t]) :
                    /\ IoUAbove(cand[i].box, cand[j].box, t)
                    /\ BestScores[i] >= BestScores[j]

\* a candidate is dropped that overlaps a box of the output of a lower score
\* above the threshold too: the one it is dropped for has the higher score
C27_Witness ==
    \E t \in NmsThrs :
        /\ dets[t].kind = "array"
        /\ \E j \in ValidSet \ Srcs(dets[t]) : \E i, k \in Srcs(dets[t]) :
              /\ IoUAbove(cand[i].box, cand[j].box, t)
              /\ IoUAbove(cand[k].box, cand[j].box, t)
              /\ BestScores[i] > BestScores[j]
              /\ BestScores[k] < BestScores[j]

(***************************************************************************)
(* Claims about the loop of nms (SpecNms, SpecNmsFair)                     *)
(***************************************************************************)
\* the selected box has left the pool and the pool has not grown otherwise
PoolShrinks ==
    (nm_pc = "loop" /\ nm_pc' = "loop") =>
        /\ Len(nm_order') < Len(nm_order)
        /\ \A k \in 1..Len(nm_order') : nm_order'[k] # Head(nm_order)

\* C25: the loop ends with an empty pool; every iteration takes at least the
\* selected box out of the pool, and there are at most N iterations for N
\* score-passing candidates
C25_LoopTerminates ==
    /\ [][PoolShrinks]_vars
    /\ [](Len(nm_keep) + Len(nm_order) <= Len(NmsBoxes))
    /\ <>(nm_pc = "done" /\ nm_order = <<>>)

\* three candidates, none discarded: three iterations
C25_Witness ==
    /\ nm_pc = "done"
    /\ Len(NmsBoxes) = 3
    /\ Len(nm_keep) = 3
    /\ nm_order = <<>>

C10_FailsBeforeNumericWork ==
    sl_result.kind = "raise" => sl_steps = <<>>

\* the call is over and was given two decodable pictures with the same pixels
SameImages ==
    /\ sl_pc = "done"
    /\ Decodable(sl_call.target)
    /\ Decodable(sl_call.background)
    /\ ToArray(sl_call.target) = ToArray(sl_call.background)

\* C12: slide_comparison on two pixel-identical images of the same dimensions
\* returns the point (0, 0)
C12_IdenticalGiveOrigin ==
    (sl_call.op = "slide_comparison" /\ SameImages) =>
        (sl_result.kind = "return" /\ sl_result.value.target = <<0, 0>>)

C12_Witness ==
    /\ sl_call.op = "slide_comparison"
    /\ SameImages
    /\ sl_call.target.w >= 2
    /\ ~IsFlat(sl_arr.target)
    /\ sl_steps[Len(sl_steps)] = "findContours"
    /\ sl_result.value = NoContourValue

\* |1 - num / sqrt(a * b)| <= 1/1000
NearOne(c) ==
    LET q == c.a * c.b
        d == Abs(q - c.num * c.num)
    IN  /\ c.num > 0
        /\ d * 400 <= q
        /\ IF c.num * c.num >= q THEN d * 1000000 <= 2001 * q
                                 ELSE d * 1000000 <= 1999 * q

\* C13: slide_match in edge mode with the same W x H image as target and as
\* background returns (W // 2, H // 2) and a confidence within 1e-3 of 1.0
C13_IdenticalGiveCentre ==
    (sl_call.op = "slide_match" /\ ~sl_call.simple_target /\ SameImages) =>
        /\ sl_result.kind = "return"
        /\ sl_result.value.target = <<sl_call.target.w \div 2, sl_call.target.h \div 2>>
        /\ NearOne(sl_result.value.confidence)

C13_Witness ==
    /\ sl_call.op = "slide_match"
    /\ ~sl_call.simple_target
    /\ SameImages
    /\ sl_call.target.w >= 2
    /\ ~IsFlat(sl_arr.target)
    /\ sl_result.value.target = <<1, sl_call.target.h \div 2>>
    /\ sl_result.value.confidence # One

\* a slide_match call that returned, its target no larger than its background
MatchReturned ==
    /\ sl_pc = "done"
    /\ sl_call.op = "slide_match"
    /\ sl_result.kind = "return"
    /\ sl_arr.target.w <= sl_arr.background.w
    /\ sl_arr.target.h <= sl_arr.background.h

\* C23: in raw and in edge mode the point returned is (loc_x + tw // 2,
\* loc_y + th // 2) for a placement loc, among the (bw - tw + 1) x (bh - th + 1)
\* there are, at which the correlation surface is largest, and the confidence
\* is the value of the surface at loc
C23_CentreOfBestPlacement ==
    MatchReturned =>
        LET t == sl_arr.target
            b == sl_arr.background
            surface == sl_arr.work
        IN  /\ surface.w = b.w - t.w + 1 /\ surface.h = b.h - t.h + 1
            /\ DOMAIN surface.v = Cells(b.w - t.w + 1, b.h - t.h + 1)
            /\ \E loc \in Cells(b.w - t.w + 1, b.h - t.h + 1) :
                  /\ sl_result.value.target = <<loc[1] + (t.w \div 2), loc[2] + (t.h \div 2)>>
                  /\ sl_result.value.confidence = surface.v[loc]
                  /\ \A d \in DOMAIN surface.v : ~Greater(surface.v[d], surface.v[loc])

\* raw mode, a 2 x 1 target that matches the second row of a 2 x 2 background
\* and not the first: loc = (0, 1), the point is (1, 1)
C23_Witness ==
    /\ MatchReturned
    /\ sl_call.simple_target
    /\ sl_arr.target.w = 2 /\ sl_arr.target.h = 1
    /\ sl_arr.background.w = 2 /\ sl_arr.background.h = 2
    /\ Greater(sl_arr.work.v[<<0, 1>>], sl_arr.work.v[<<0, 0>>])
    /\ sl_result.value.target = <<1, 1>>
    /\ sl_result.value.confidence = sl_arr.work.v[<<0, 1>>]

\* a slide_comparison call that returned
ComparisonReturned ==
    /\ sl_pc = "done"
    /\ sl_call.op = "slide_comparison"
    /\ sl_result.kind = "return"

\* every contour of the mask is a filled rectangle
RectContours(a) ==
    \A C \in Contours(a) : Cardinality(C) = BoundingRect(C)[3] * BoundingRect(C)[4]

\* C24: when the cleaned mask has a contour, the point returned, under target,
\* target_x and target_y, is the centre (x + w // 2, y + h // 2) of the bounding
\* rectangle of a contour whose area no other contour exceeds
C24_CentreOfLargestContour ==
    (ComparisonReturned /\ Contours(sl_arr.work) # {}) =>
        /\ RectContours(sl_arr.work)
        /\ sl_result.value.keys = {"target", "target_x", "target_y"}
        /\ \E C \in Contours(sl_arr.work) :
              LET r == BoundingRect(C)
              IN  /\ \A D \in Contours(sl_arr.work) :
                        (r[3] - 1) * (r[4] - 1) >=
                            (BoundingRect(D)[3] - 1) * (BoundingRect(D)[4] - 1)
                  /\ sl_result.value.target = <<r[1] + (r[3] \div 2), r[2] + (r[4] \div 2)>>

\* two changed regions, 3 x 3 at the left and 4 x 3 at the right: the point is
\* the centre (8, 1) of the right one
C24_Witness ==
    /\ ComparisonReturned
    /\ Cardinality(Contours(sl_arr.work)) = 2
    /\ \E C \in Contours(sl_arr.work) : BoundingRect(C) = <<0, 0, 3, 3>>
    /\ \E C \in Contours(sl_arr.work) : BoundingRect(C) = <<6, 0, 4, 3>>
    /\ sl_result.value.target = <<8, 1>>

\* the point (x, y) is a pixel of a w x h image
PointInside(p, w, h) == 0 <= p[1] /\ p[1] < w /\ 0 <= p[2] /\ p[2] < h

\* a slide_comparison call on two images of one size that returned
SameSizeCompared ==
    /\ ComparisonReturned
    /\ sl_call.target.w = sl_call.background.w
    /\ sl_call.target.h = sl_call.background.h

\* C29: the point a slide_match call returns for a target no larger than the
\* background is a pixel of the background, and the point a slide_comparison
\* call returns for two W x H images is a pixel of a W x H image
C29_PointInsideImage ==
    /\ MatchReturned =>
          PointInside(sl_result.value.target, sl_call.background.w, sl_call.background.h)
    /\ SameSizeCompared =>
          PointInside(sl_result.value.target, sl_call.target.w, sl_call.target.h)

\* a target as large as its background is matched, the point is the last pixel
\* (1, 1) of the 2 x 2 background; so is the point of a comparison whose mask is
\* all changed
C29_Witness ==
    \/ /\ MatchReturned
       /\ sl_call.target.w = 2 /\ sl_call.target.h = 2
       /\ sl_call.background.w = 2 /\ sl_call.background.h = 2
       /\ sl_result.value.target = <<1, 1>>
       /\ ~sl_call.simple_target
    \/ /\ SameSizeCompared
       /\ sl_call.target.w = 2 /\ sl_call.target.h = 2
       /\ Contours(sl_arr.work) # {}
       /\ sl_result.value.target = <<1, 1>>

(***************************************************************************)
(* Claims about concurrent invocations (SpecConc)                          *)
(***************************************************************************)
\* C14: however the statements of concurrent get_bbox, slide_match and
\* slide_comparison calls interleave, each call returns what it returns when
\* run alone on its inputs, and the engine objects are left as they were
C14_CallsIndependent ==
    /\ engine = EngineReady
    /\ \A t \in DOMAIN th :
          th[t].pc = "done" => th[t].result \in AloneOutcomes(th[t].call)

C14_Witness ==
    /\ overlapped
    /\ \A t \in Threads : th[t].pc = "done"
    /\ th[1].call.op = "get_bbox"
    /\ th[2].call.op = "slide_comparison"
    /\ th[1].result.boxes # <<>>
    /\ th[2].result.target # <<0, 0>>

(***************************************************************************)
(* Claims about the stride configuration (SpecCfg)                         *)
(***************************************************************************)
\* input_size / stride is not an integer for some enabled stride
Mismatched(c) ==
    \E k \in 1..Len(StridesFor(c.p6)) :
        \/ c.img_size[1] % StridesFor(c.p6)[k] # 0
        \/ c.img_size[2] % StridesFor(c.p6)[k] # 0

\* C15: a configuration whose input size some enabled stride does not divide is
\* reported as an error at setup, and no tensor is ever decoded under it
C15_MismatchIsSetupError ==
    Mismatched(cfg) => (cfg_pc # "ready" /\ cfg_result # "decoded")


\* gh * gw for the level of stride s, with gh = H_in / s and gw = W_in / s
LevelRows(c, s) == (c.img_size[1] \div s) * (c.img_size[2] \div s)

\* the rows of the levels before that of stride s, for the strides 8, 16, 32
RowsBefore(c, s) ==
    IF s = 8 THEN 0
    ELSE IF s = 16 THEN LevelRows(c, 8)
    ELSE LevelRows(c, 8) + LevelRows(c, 16)

ExpectedRows(c) == RowsBefore(c, 32) + LevelRows(c, 32)

\* the stride of the level the k-th row falls in
StrideOfRow(c, k) ==
    CHOOSE s \in {8, 16, 32} : RowsBefore(c, s) < k /\ k <= RowsBefore(c, s) + LevelRows(c, s)

\* the row of the provider's tensor a decoded row was made from: the columns
\* from the objectness on are not written
RawOf(row) == CHOOSE r \in RowPool : \A c \in 5..Len(r) : r[c] = row[c]

\* C21: with the strides 8, 16, 32 a tensor is decoded when it has the sum of
\* gh * gw rows, and its k-th row is then decoded with the stride s of the level
\* it falls in and the cell grid_x = j mod gw, grid_y = j div gw, j being its
\* place within the level
C21_RowMajorGrids ==
    (cfg_pc = "done" /\ ~cfg.p6 /\ Len(cfg_out.rows) # 1) =>
        /\ cfg_result = "decoded" <=> Len(cfg_out.rows) = ExpectedRows(cfg)
        /\ cfg_result = "decoded" =>
              \A k \in 1..Len(cfg_out.rows) :
                  LET s == StrideOfRow(cfg, k)
                      j == k - RowsBefore(cfg, s) - 1
                      gw == cfg.img_size[2] \div s
                      row == cfg_out.rows[k]
                      r == RawOf(row)
                  IN  /\ row[3] = ExpTimes(r[3], s)
                      /\ row[2] = ((r[2] + RawUnit * (j \div gw)) * s) \div RawUnit
                      /\ r[1] # NaN =>
                            row[1] = ((r[1] + RawUnit * (j % gw)) * s) \div RawUnit

\* a 16 x 32 input decoded: the sixth row is cell (1, 1) of the stride-8 level
\* and the ninth row is cell (0, 0) of the stride-16 level
C21_Witness ==
    /\ cfg_pc = "done"
    /\ cfg_result = "decoded"
    /\ cfg = [img_size |-> <<16, 32>>, p6 |-> FALSE]
    /\ Len(cfg_out.rows) = 10
    /\ cfg_out.rows[6] = <<12, 12, 8, 8, 18, 18, 2>>
    /\ cfg_out.rows[9] = <<8, 8, 16, 16, 18, 18, 2>>

(***************************************************************************)
(* Claims about the scores (SpecScore)                                     *)
(***************************************************************************)
ClassProbs(row) == [c \in 1..(Len(row) - 5) |-> row[5 + c]]

\* the first index at which a sequence is largest
FirstMax(seq) ==
    CHOOSE c \in 1..Len(seq) :
        /\ \A e \in 1..Len(seq) : seq[c] >= seq[e]
        /\ \A e \in 1..(c - 1) : seq[e] < seq[c]

Products(row) == [c \in 1..(Len(row) - 5) |-> Fl(row[5] * row[5 + c])]

\* different class probabilities give different scores
ProductsApart(row) ==
    \A c, e \in 1..(Len(row) - 5) :
        row[5 + c] # row[5 + e] => Products(row)[c] # Products(row)[e]

\* C20 as stated: an emitted row has confidence objectness * max(class_probs)
\* and the class index argmax(class_probs) of its source row
C20_ClassOfLargestProb ==
    sc_dets.kind = "array" =>
        \A k \in 1..Len(sc_dets.rows) :
            LET r == sc_rows[sc_dets.rows[k].src]
                c == FirstMax(ClassProbs(r))
            IN  /\ sc_dets.rows[k].score = Fl(r[5] * r[5 + c])
                /\ sc_dets.rows[k].cls = c - 1

\* C20 as amended: the confidence is the float objectness * max(class_probs);
\* the class index is the first at which the float product is largest, which is
\* argmax(class_probs) when different class probabilities give different products
C20_ClassOfLargestProduct ==
    sc_dets.kind = "array" =>
        \A k \in 1..Len(sc_dets.rows) :
            LET r == sc_rows[sc_dets.rows[k].src]
                c == FirstMax(ClassProbs(r))
            IN  /\ sc_dets.rows[k].score = Fl(r[5] * r[5 + c])
                /\ sc_dets.rows[k].cls = FirstMax(Products(r)) - 1
                /\ ProductsApart(r) => sc_dets.rows[k].cls = c - 1

\* a row is emitted whose second class probability is the larger one and whose
\* class index is that of the first, and a row whose class index is the second
C20_Witness ==
    /\ sc_dets.kind = "array"
    /\ \E k \in 1..Len(sc_dets.rows) :
          LET r == sc_rows[sc_dets.rows[k].src]
          IN  r[6] < r[7] /\ ~ProductsApart(r) /\ sc_dets.rows[k].cls = 0
    /\ \E k \in 1..Len(sc_dets.rows) :
          LET r == sc_rows[sc_dets.rows[k].src]
          IN  r[6] < r[7] /\ ProductsApart(r) /\ sc_dets.rows[k].cls = 1

(***************************************************************************)
(* Claims about the life of a DetectionEngine (SpecLife)                   *)
(***************************************************************************)
\* what cleanup() leaves: no session and is_initialized false
Absent(obj) == obj.session = NoSession /\ ~obj.is_initialized

\* the call just made is a predict that raised ModelLoadError with neither
\* validate_image_input nor the session called
Refused(call) ==
    /\ call.kind = "raise" /\ call.exc = "ModelLoadError"
    /\ ~call.validated /\ ~call.ran

\* C30: cleanup() leaves the session absent and is_initialized false whatever
\* the state it is called in, a cleaned engine included, and raises nothing;
\* from then on every call other than an initialize() that succeeds leaves
\* that state as it is, is_ready() returns false, and predict raises
\* ModelLoadError before validating its input and without calling the session
C30_CleanedEngineRefuses ==
    [][ /\ lc_call'.op = "cleanup" =>
              (Absent(lc_obj') /\ lc_call'.kind = "return")
        /\ (Absent(lc_obj) /\ ~(lc_call'.op = "initialize" /\ lc_call'.kind = "return")) =>
              /\ Absent(lc_obj')
              /\ ~IsReady(lc_obj')
              /\ lc_call'.op = "is_ready" => lc_call'.value = FALSE
              /\ lc_call'.op = "predict" => Refused(lc_call')
      ]_vars

\* an engine loaded a second time and cleaned again refuses a predict call on
\* encoded image bytes
C30_Witness ==
    /\ lc_loads = 2
    /\ Absent(lc_obj)
    /\ lc_call.op = "predict" /\ lc_call.arg = "bytes"
    /\ Refused(lc_call)

====
